---- MODULE Spec2Model ----
(***************************************************************************)
(* A model of the LabToolBox Kubernetes helper scripts                     *)
(*   create_k8s_secret.py  (key/value parsing, kubectl command, file save) *)
(*   promote_images.py     (image extraction, substitution, promotion run) *)
(*                                                                         *)
(* Python strings are modelled as sequences of one-character strings, so   *)
(* that stripping, splitting and the regular expressions of the scripts    *)
(* are computed character by character as the interpreter does.            *)
(***************************************************************************)
EXTENDS Integers, Sequences, FiniteSets, TLC

VARIABLES
    \* promote_images.py: PathCompleter
    comp_home,         \* the value of HOME
    comp_fs,           \* the file system: absolute path -> "dir" | "file"
    comp_matches,      \* self.matches
    comp_found,        \* potential_matches of the last state-0 call
    comp_failed,       \* glob raised in the last state-0 call
    comp_text,         \* the text of the last call
    comp_state,        \* the state of the last call
    comp_result,       \* what the last call returned
    comp_calls,        \* the number of calls made
    \* promote_images.py: get_paths_from_args_or_env
    path_argv,         \* sys.argv[1:], one element per positional, option or flag
    path_env,          \* os.environ: variable -> value ("" when unset or empty)
    path_existing,     \* the paths for which Path.exists() is true
    path_args,         \* the namespace parse_args() returned ("none" before)
    path_result,       \* the returned (staging_path, base_path, dry_run)
    path_pc,           \* "idle" | "call" | "returned" | "usage"
    \* validateConfig.py: scan_yaml_files_for_resources
    scan_files,        \* the files met by the directory walk, in walk order
    resource_to_file_map, \* the dict built by the scan
    scan_idx,          \* index of the next file of the walk
    failed_resource,   \* the key looked up for a failed resource (<<>> before)
    file_location,     \* the location reported for it
    scan_pc,           \* "idle" | "scan" | "lookup" | "done"
    \* validateConfig.py: the kubeconform error table
    rep_lines,         \* all_error_lines, as the parts each line was written from
    rep_map,           \* resource_to_file_map when the table is printed
    rep_idx,           \* index of the next line of the loop
    rep_table,         \* the table entries printed so far
    rep_summary,       \* what the "Summary of Failing Resources" section printed
    rep_pc,            \* "idle" | "table" | "summary" | "done"
    \* validateConfig.py: validate_k8s_config
    val_tools,         \* "present" | "missing": shutil.which for kustomize and kubeconform
    val_missing,       \* missing_tools, as a set
    val_answer,        \* the text typed at the installation prompt
    val_installs,      \* missing tool -> what install_tool returns for it
    val_install,       \* "none" | "declined" | "failed" | "installed": how
                       \* check_and_install_tools ended
    val_prompts,       \* number of times the installation prompt was shown
    val_install_calls, \* the tools install_tool was called for
    val_output,        \* "none", or the file the build output was written to
    val_cmds,          \* the kustomize and kubeconform commands run so far
    val_path,          \* "empty" | "nodir" | "dir": the path argument
    val_kust,          \* "missing" | "yaml_error" | "unusable" | "ok": kustomization.yaml
    val_build,         \* "none" | "ok" | "failed": kustomize build
    val_kubeconform,   \* "none" | "ok" | "failed": kubeconform
    val_temp,          \* "absent" | "present": the mkstemp output file
    val_temp_created,  \* mkstemp was called
    val_raised,        \* an exception other than SystemExit was raised in the try block
    val_interrupted,   \* KeyboardInterrupt was raised
    val_exit,          \* "none" while running, else the process exit status
    val_pc,            \* "idle" | "tools" | "args" | "parse" | "mkstemp" | "build"
                       \* | "kubeconform" | "exited"
    \* create_k8s_secret.py: the prompts of get_user_inputs and confirm_action
    sops_available,    \* what check_sops_availability returned
    in_typed,          \* prompt -> the text last entered at it ("none" before)
    in_tries,          \* number of entries that were rejected so far
    in_secret_name,    \* secret_name once accepted
    in_namespace,      \* namespace once set
    in_use_sops,       \* use_sops
    in_age_key,        \* age_key (<<>> for None)
    in_pairs,          \* key_value_pairs once parsed
    in_choice,         \* the choice returned by confirm_action
    in_exit,           \* the status of sys.exit in get_user_inputs, "none" before
    in_pc,             \* the prompt being asked, "idle", "done" or "exited"
    \* create_k8s_secret.py: get_user_inputs / parse_key_value_input / main
    kv_typed,          \* the segments the user typed, before rendering to text
    kv_input,          \* the text typed at the "Key/Value pairs" prompt
    secret_name,       \* validated secret name
    namespace,         \* namespace
    key_value_pairs,   \* the dict returned by parse_key_value_input (insertion ordered)
    parse_outcome,     \* "pending" | "ok" | "ValueError"
    choice,            \* the answer to confirm_action: "1", "2", "3" ("" before)
    cmd,               \* the list built by create_kubectl_command
    secret_pc,         \* position in the script
    \* create_k8s_secret.py: save_yaml_to_file
    files,             \* the working directory: filename -> content
    written,           \* every (filename, content) a save call has returned
    save_calls,        \* number of save_yaml_to_file calls so far
    last_save,         \* the last call: its arguments, the directory before, its result
    \* promote_images.py: extract_base_images / update_base_image on one file
    manifest_lines,    \* the lines the deployment file was written from
    deployment_content,\* the text of the deployment file
    content_before,    \* its text before the last update_base_image call
    base_images,       \* the list returned by extract_base_images
    old_image,         \* old_image argument of the last update_base_image call
    new_image,         \* new_image argument of the last update_base_image call
    update_result,     \* its return value: "none" before any call, else TRUE / FALSE
    image_pc,          \* "idle" | "read" | "extracted" | "updated"
    \* promote_images.py: extract_new_tags on one kustomization file
    kustomization,     \* the kustomization file as yaml.safe_load sees it
    staging_images,    \* the list returned by extract_new_tags
    tags_pc,           \* "idle" | "file" | "extracted"
    \* promote_images.py: compare_and_promote_images
    cli_dry_run,       \* --dry-run was given on the command line
    flux_detected,     \* detect_flux_structure found a staging and a base directory
    dry_run,           \* the local dry_run ("unset" before the paths are chosen)
    staging_dir,       \* the kustomization files under the staging path, in walk order
    base_dir,          \* the base path: app directory -> its files (name, content)
    base_dir_initial,  \* base_dir when the run started
    promotions_available, \* the list built by the comparison loop
    promo_idx,         \* index of the next promotion to ask about
    answers,           \* the answers given to the per-image Confirm.ask so far
    update_log,        \* the return values of the update_base_image calls so far
    promote_pc,        \* "idle" | "start" | "scan" | "ask" | "done"
    \* create_k8s_secret.py: main from confirm_action on, run_kubectl_command
    run_secret,        \* secret_name returned by get_user_inputs
    use_sops,          \* use_sops returned by get_user_inputs (age_key is set with it)
    run_choice,        \* the menu choice returned by confirm_action
    run_cmds,          \* the commands handed to subprocess.run so far, in order
    files_initial,     \* the working directory when the run started
    kubectl_result,    \* "none" | "ok" | "failed" | "notfound"
    sops_result,       \* "none" | "ok" | "failed" | "notfound"
    save_errors,       \* the file suffixes whose save_yaml_to_file raised IOError
    saved_files,       \* the list saved_files of run_kubectl_command
    temp_file,         \* the staging file of encrypt_with_sops: "absent" or its text
    temp_created,      \* encrypt_with_sops has created its staging file
    run_events,        \* the steps of the dry run taken so far, in order
    exit_code,         \* "none" while running, else the process exit status
    reported_success,  \* a success message was printed by main
    run_interrupted,   \* KeyboardInterrupt was raised during the run
    run_pc             \* "idle" | "main" | "save_plain" | "sops_temp" | "sops_run"
                       \* | "save_sops" | "finish" | "exited"

secretVars == <<kv_typed, kv_input, secret_name, namespace, key_value_pairs, parse_outcome,
                choice, cmd, secret_pc>>
saveVars == <<files, written, save_calls, last_save>>
imageVars == <<manifest_lines, deployment_content, content_before, base_images,
               old_image, new_image, update_result, image_pc>>
tagsVars == <<kustomization, staging_images, tags_pc>>
promoteVars == <<cli_dry_run, flux_detected, dry_run, staging_dir, base_dir,
                 base_dir_initial, promotions_available, promo_idx, answers,
                 update_log, promote_pc>>
runVars == <<run_secret, use_sops, run_choice, run_cmds, files_initial, kubectl_result, sops_result,
             save_errors, saved_files, temp_file, temp_created, run_events, exit_code,
             reported_success, run_interrupted, run_pc>>
inputVars == <<sops_available, in_typed, in_tries, in_secret_name, in_namespace,
               in_use_sops, in_age_key, in_pairs, in_choice, in_exit, in_pc>>
valToolVars == <<val_missing, val_answer, val_installs, val_install, val_prompts,
                 val_install_calls>>
valVars == <<val_tools, valToolVars, val_path, val_kust, val_build, val_kubeconform,
             val_output, val_cmds,
             val_temp, val_temp_created, val_raised, val_interrupted, val_exit, val_pc>>
repVars == <<rep_lines, rep_map, rep_idx, rep_table, rep_summary, rep_pc>>
scanVars == <<scan_files, resource_to_file_map, scan_idx, failed_resource,
              file_location, scan_pc>>
pathVars == <<path_argv, path_env, path_existing, path_args, path_result, path_pc>>
compVars == <<comp_home, comp_fs, comp_matches, comp_found, comp_failed, comp_text,
              comp_state, comp_result, comp_calls>>
toolVars == <<runVars, inputVars, valVars, repVars, scanVars, pathVars, compVars>>
vars == <<secretVars, saveVars, imageVars, tagsVars, promoteVars, toolVars>>

----------------------------------------------------------------------------
(* Python str helpers *)

\* str.isspace() for the characters the model uses; also the regex class \s
IsSpace(c) ==
    c \in {" ", "\n", "\t"}

Lower ==
    {"a","b","c","d","e","f","g","h","i","j","k","l","m",
     "n","o","p","q","r","s","t","u","v","w","x","y","z"}

Upper ==
    {"A","B","C","D","E","F","G","H","I","J","K","L","M",
     "N","O","P","Q","R","S","T","U","V","W","X","Y","Z"}

Digits ==
    {"0","1","2","3","4","5","6","7","8","9"}

IsQuote(c) ==
    c \in {"\"", "'"}

RECURSIVE lstrip(_)
lstrip(s) ==
    IF s # <<>> /\ IsSpace(Head(s)) THEN lstrip(Tail(s)) ELSE s

RECURSIVE rstrip(_)
rstrip(s) ==
    IF s # <<>> /\ IsSpace(s[Len(s)]) THEN rstrip(SubSeq(s, 1, Len(s) - 1)) ELSE s

\* str.strip()
strip(s) ==
    rstrip(lstrip(s))

\* index of the first occurrence of character c in s, 0 when absent
RECURSIVE FindFrom(_, _, _)
FindFrom(s, c, i) ==
    IF i > Len(s) THEN 0
    ELSE IF s[i] = c THEN i
    ELSE FindFrom(s, c, i + 1)

Find(s, c) ==
    FindFrom(s, c, 1)

\* str.split(sep) for a one-character separator: always at least one piece
RECURSIVE split(_, _)
split(s, sep) ==
    LET p == Find(s, sep)
    IN  IF p = 0 THEN <<s>>
        ELSE <<SubSeq(s, 1, p - 1)>> \o split(SubSeq(s, p + 1, Len(s)), sep)

\* the longest prefix of s whose characters all satisfy "not a quote"
RECURSIVE NonQuotePrefixLen(_, _)
NonQuotePrefixLen(s, i) ==
    IF i > Len(s) \/ IsQuote(s[i]) THEN i - 1
    ELSE NonQuotePrefixLen(s, i + 1)

----------------------------------------------------------------------------
(* create_k8s_secret.py: parse_key_value_input *)

\* re.match(r'^[a-zA-Z_][a-zA-Z0-9_.-]*$', key); key is already stripped, so
\* the '$' can only match at the very end
KeyRegexMatch(key) ==
    /\ key # <<>>
    /\ key[1] \in Lower \cup Upper \cup {"_"}
    /\ \A i \in 2..Len(key) : key[i] \in Lower \cup Upper \cup Digits \cup {"_", ".", "-"}

\* re.match(r'^([^:]+):\s*["\']?([^"\']*)["\']?$', pair) for a stripped pair.
\* [^:]+ is greedy and cannot cross a colon: group 1 is the text before the
\* first colon and must be non-empty.  After the colon: all leading
\* whitespace, an optional quote, the longest quote-free run (group 2), an
\* optional quote, and then the end of the string.  No other way of
\* matching succeeds when this one fails, so the greedy walk is exact.
PairRegexMatch(pair) ==
    LET colon == Find(pair, ":")
        rest  == lstrip(SubSeq(pair, colon + 1, Len(pair)))
        body0 == IF rest # <<>> /\ IsQuote(rest[1]) THEN Tail(rest) ELSE rest
        n     == NonQuotePrefixLen(body0, 1)
        after == SubSeq(body0, n + 1, Len(body0))
        tail  == IF after # <<>> /\ IsQuote(after[1]) THEN Tail(after) ELSE after
    IN  IF colon <= 1 \/ tail # <<>>
        THEN [matched |-> FALSE, group1 |-> <<>>, group2 |-> <<>>]
        ELSE [matched |-> TRUE,
              group1  |-> SubSeq(pair, 1, colon - 1),
              group2  |-> SubSeq(body0, 1, n)]

\* group(2).strip(): the value stored for a pair
ValueOfGroup(g) ==
    strip(g)

\* a dict whose existing keys keep their first value
DictSetKeepingFirst(pairs, key, value) ==
    IF \E i \in 1..Len(pairs) : pairs[i][1] = key
    THEN pairs
    ELSE Append(pairs, <<key, value>>)

\* pairs[key] = value on an insertion-ordered dict kept as a sequence of
\* <<key, value>>: an existing key keeps its position and takes the new value
DictSet(pairs, key, value) ==
    IF \E i \in 1..Len(pairs) : pairs[i][1] = key
    THEN [i \in 1..Len(pairs) |-> IF pairs[i][1] = key THEN <<key, value>> ELSE pairs[i]]
    ELSE Append(pairs, <<key, value>>)

\* the key pattern without its rule for the first character
KeyAcceptedAnyFirstChar(key) ==
    \A i \in 1..Len(key) : key[i] \in Lower \cup Upper \cup Digits \cup {"_", ".", "-"}

\* the key validation of a pair
KeyAccepted(key) ==
    KeyRegexMatch(key)

\* the for loop over user_input.split(';'), from segment i with the dict so far
RECURSIVE ParseLoop(_, _, _)
ParseLoop(segs, i, pairs) ==
    IF i > Len(segs)
    THEN IF pairs = <<>>
         THEN [outcome |-> "ValueError", pairs |-> <<>>]
         ELSE [outcome |-> "ok", pairs |-> pairs]
    ELSE LET pair == strip(segs[i])
             m    == PairRegexMatch(pair)
             key  == strip(m.group1)
         IN  IF pair = <<>> THEN ParseLoop(segs, i + 1, pairs)
             ELSE IF ~m.matched THEN [outcome |-> "ValueError", pairs |-> <<>>]
             ELSE IF ~KeyAccepted(key) THEN [outcome |-> "ValueError", pairs |-> <<>>]
             ELSE ParseLoop(segs, i + 1, DictSet(pairs, key, ValueOfGroup(m.group2)))

parse_key_value_input(user_input) ==
    IF strip(user_input) = <<>>
    THEN [outcome |-> "ValueError", pairs |-> <<>>]
    ELSE ParseLoop(split(user_input, ";"), 1, <<>>)

----------------------------------------------------------------------------
(* create_k8s_secret.py: create_kubectl_command *)

\* the fixed head of the command: "kubectl", "create", "secret", "generic"
KubectlHead ==
    << <<"k","u","b","e","c","t","l">>, <<"c","r","e","a","t","e">>,
       <<"s","e","c","r","e","t">>, <<"g","e","n","e","r","i","c">> >>

NamespaceFlag ==
    <<"-","-","n","a","m","e","s","p","a","c","e">>

FromLiteralFlag ==
    <<"-","-","f","r","o","m","-","l","i","t","e","r","a","l">>

\* the literal with its value wrapped in double quotes
LiteralArgQuoted(key, value) ==
    key \o <<"=", "\"">> \o value \o <<"\"">>

\* f"{key}={value}"
LiteralArg(key, value) ==
    key \o <<"=">> \o value

\* the for loop over key_value_pairs.items(): cmd.extend(["--from-literal", ...])
RECURSIVE ExtendLiterals(_, _, _)
ExtendLiterals(c, pairs, i) ==
    IF i > Len(pairs) THEN c
    ELSE ExtendLiterals(c \o <<FromLiteralFlag, LiteralArg(pairs[i][1], pairs[i][2])>>,
                        pairs, i + 1)

create_kubectl_command(name, ns, pairs) ==
    ExtendLiterals(KubectlHead \o <<name, NamespaceFlag, ns>>, pairs, 1)

----------------------------------------------------------------------------
(* create_k8s_secret.py: save_yaml_to_file *)

\* str(counter) for a positive integer
RECURSIVE IntToStr(_)
IntToStr(n) ==
    LET digit == <<"0","1","2","3","4","5","6","7","8","9">>[(n % 10) + 1]
    IN  IF n < 10 THEN <<digit>> ELSE IntToStr(n \div 10) \o <<digit>>

\* index of the last occurrence of character c in s, 0 when absent
RECURSIVE RFindFrom(_, _, _)
RFindFrom(s, c, i) ==
    IF i < 1 THEN 0
    ELSE IF s[i] = c THEN i
    ELSE RFindFrom(s, c, i - 1)

\* os.path.splitext: split at the last dot of the last path component,
\* unless that component has nothing but dots before it
splitext(p) ==
    LET sep == RFindFrom(p, "/", Len(p))
        dot == RFindFrom(p, ".", Len(p))
    IN  IF dot > sep /\ \E k \in (sep + 1)..(dot - 1) : p[k] # "."
        THEN <<SubSeq(p, 1, dot - 1), SubSeq(p, dot, Len(p))>>
        ELSE <<p, <<>> >>

SecretInfix ==
    <<"-","s","e","c","r","e","t">>

YamlExt ==
    <<".","y","a","m","l">>

\* f"{secret_name}-secret{file_suffix}.yaml"
OriginalFilename(name, suffix) ==
    name \o SecretInfix \o suffix \o YamlExt

\* f"{name}-{counter}{ext}" with name, ext = os.path.splitext(original_filename)
CounterFilename(original, counter) ==
    LET ne == splitext(original)
    IN  ne[1] \o <<"-">> \o IntToStr(counter) \o ne[2]

\* the loop probing only the first numbered name
FreeFilenameOneProbe(original, filename, counter, existing) ==
    IF filename \in existing THEN CounterFilename(original, counter) ELSE filename

\* the while os.path.exists(filename) loop: the name the file is opened under
RECURSIVE FreeFilename(_, _, _, _)
FreeFilename(original, filename, counter, existing) ==
    IF filename \in existing
    THEN FreeFilename(original, CounterFilename(original, counter), counter + 1, existing)
    ELSE filename

\* the filename save_yaml_to_file writes to in a directory holding `existing`
save_yaml_filename(name, suffix, existing) ==
    LET original == OriginalFilename(name, suffix)
    IN  FreeFilename(original, original, 1, existing)

\* open(filename, 'w') followed by f.write(content): creates or truncates
WriteFile(fs, filename, content) ==
    [n \in DOMAIN fs \cup {filename} |-> IF n = filename THEN content ELSE fs[n]]

----------------------------------------------------------------------------
(* promote_images.py: ImageVersion, extract_base_images, update_base_image *)

ImageVersion(name, tag) ==
    [name |-> name, tag |-> tag]

ImageKey ==
    <<"i","m","a","g","e",":">>

\* s has the text lit at position p
StartsWithAt(s, p, lit) ==
    /\ p + Len(lit) - 1 <= Len(s)
    /\ SubSeq(s, p, p + Len(lit) - 1) = lit

\* the end (exclusive) of the longest run from p of characters c with
\* IsSpace(c) = space and, when stopAtColon, c # ":"
RECURSIVE RunEnd(_, _, _, _)
RunEnd(s, p, space, stopAtColon) ==
    IF p > Len(s) \/ IsSpace(s[p]) # space \/ (stopAtColon /\ s[p] = ":") THEN p
    ELSE RunEnd(s, p + 1, space, stopAtColon)

\* r'image:\s*([^:\s]+):([^\s]+)' tried at position p.  Every quantifier
\* is greedy and followed by a character its class excludes, so no shorter
\* choice can succeed where the longest fails.
ImagePatternAt(s, p) ==
    LET n0 == RunEnd(s, p + Len(ImageKey), TRUE, FALSE)
        n1 == RunEnd(s, n0, FALSE, TRUE)
        t1 == RunEnd(s, n1 + 1, FALSE, FALSE)
    IN  IF /\ StartsWithAt(s, p, ImageKey)
           /\ n1 > n0
           /\ n1 <= Len(s)
           /\ s[n1] = ":"
           /\ t1 > n1 + 1
        THEN [matched |-> TRUE, name |-> SubSeq(s, n0, n1 - 1),
              tag |-> SubSeq(s, n1 + 1, t1 - 1), end |-> t1]
        ELSE [matched |-> FALSE, name |-> <<>>, tag |-> <<>>, end |-> p]

RECURSIVE lstripQuotes(_)
lstripQuotes(s) ==
    IF s # <<>> /\ IsQuote(Head(s)) THEN lstripQuotes(Tail(s)) ELSE s

RECURSIVE rstripQuotes(_)
rstripQuotes(s) ==
    IF s # <<>> /\ IsQuote(s[Len(s)]) THEN rstripQuotes(SubSeq(s, 1, Len(s) - 1)) ELSE s

\* the quote clean-up left out
StripQuotesLeftOnly(s) ==
    lstripQuotes(s)

\* str.strip('\'"')
StripQuotes(s) ==
    rstripQuotes(lstripQuotes(s))

\* re.findall over the content from position p, then the clean-up loop
RECURSIVE FindAllImages(_, _)
FindAllImages(s, p) ==
    IF p > Len(s) THEN <<>>
    ELSE LET m == ImagePatternAt(s, p)
         IN  IF m.matched
             THEN <<ImageVersion(StripQuotes(m.name), StripQuotes(m.tag))>>
                  \o FindAllImages(s, m.end)
             ELSE FindAllImages(s, p + 1)

\* extract_base_images on a readable file holding `content`
extract_base_images(content) ==
    FindAllImages(content, 1)

\* f"image:\\s*{re.escape(old_image.name)}:{re.escape(old_image.tag)}" tried
\* at position p: "image:", then as much whitespace as still lets the
\* literal name:tag follow; the result is the end (exclusive) of the match,
\* 0 when there is none
RECURSIVE OldPatternEnd(_, _, _, _)
OldPatternEnd(s, p, lit, k) ==
    IF k < 0 THEN 0
    ELSE IF StartsWithAt(s, p + Len(ImageKey) + k, lit)
         THEN p + Len(ImageKey) + k + Len(lit)
         ELSE OldPatternEnd(s, p, lit, k - 1)

OldPatternAt(s, p, lit) ==
    IF StartsWithAt(s, p, ImageKey)
    THEN OldPatternEnd(s, p, lit,
                       RunEnd(s, p + Len(ImageKey), TRUE, FALSE) - (p + Len(ImageKey)))
    ELSE 0

\* re.sub(old_pattern, new_line, content): every non-overlapping match,
\* leftmost first, is replaced
RECURSIVE SubAll(_, _, _, _)
SubAll(s, p, lit, new_line) ==
    IF p > Len(s) THEN <<>>
    ELSE LET e == OldPatternAt(s, p, lit)
         IN  IF e > 0 THEN new_line \o SubAll(s, e, lit, new_line)
             ELSE <<s[p]>> \o SubAll(s, p + 1, lit, new_line)

\* f"image: {new_image.name}:{new_image.tag}"
NewLine(new) ==
    ImageKey \o <<" ">> \o new.name \o <<":">> \o new.tag

\* update_base_image on a readable and writable file: the new content and
\* the return value.  Names and tags hold no backslash, so new_line is
\* taken literally by re.sub.
update_base_image(content, old, new) ==
    LET updated == SubAll(content, 1, old.name \o <<":">> \o old.tag, NewLine(new))
    IN  [content |-> updated, result |-> (updated # content)]

----------------------------------------------------------------------------
(* promote_images.py: extract_new_tags *)

\* the for loop over content['images'] from entry i: a None entry makes
\* 'name' in image_config raise TypeError
RECURSIVE NewTagsLoop(_, _, _)
NewTagsLoop(entries, i, images) ==
    IF i > Len(entries) THEN [raised |-> FALSE, images |-> images]
    ELSE IF entries[i].null THEN [raised |-> TRUE, images |-> images]
    ELSE IF entries[i].has_name /\ entries[i].has_newTag
         THEN NewTagsLoop(entries, i + 1,
                          Append(images, ImageVersion(entries[i].name, entries[i].newTag)))
         ELSE NewTagsLoop(entries, i + 1, images)

\* extract_new_tags: open and yaml.safe_load may raise, content may be None
\* (empty file), 'images' may be missing or null; any exception gives []
extract_new_tags(k) ==
    IF k.state \in {"unreadable", "unparseable"} THEN <<>>
    ELSE IF k.state = "empty" \/ ~k.has_images THEN <<>>
    ELSE IF k.images_null THEN <<>>
    ELSE LET r == NewTagsLoop(k.images, 1, <<>>)
         IN  IF r.raised THEN <<>> ELSE r.images

----------------------------------------------------------------------------
(* Bounds and input sets of the secret script *)

\* at most this many semicolon-separated segments are typed at the prompt
MaxSegments == 2

\* at most this many save_yaml_to_file calls are followed
MaxSaveCalls == 3

SegKeys ==
    { <<"a">>, <<"b">>, <<"1","a">> }

SegValues ==
    { <<"1">>, <<" ","1">>, <<"2">>, <<>> }

\* what the user may type between two semicolons: KEY: "VALUE", KEY:VALUE,
\* or text without a colon (possibly nothing)
SegmentChoices ==
    [form : {"quoted", "bare"}, key : SegKeys, value : SegValues]
    \cup [form : {"raw"}, key : {<<>>},
          value : {<<>>, <<"a">>, <<" ">>, <<";", "b", ":", "2">>}]

RenderSegment(g) ==
    CASE g.form = "quoted" -> g.key \o <<":", " ", "\"">> \o g.value \o <<"\"">>
      [] g.form = "bare"   -> g.key \o <<":">> \o g.value
      [] OTHER             -> g.value

\* the segments joined by "; " as in the documented input format
RECURSIVE RenderInput(_, _)
RenderInput(segs, i) ==
    IF i > Len(segs) THEN <<>>
    ELSE (IF i > 1 THEN <<";", " ">> ELSE <<>>) \o RenderSegment(segs[i])
         \o RenderInput(segs, i + 1)

TypedInputs ==
    UNION { [1..n -> SegmentChoices] : n \in 1..MaxSegments }

SecretNames ==
    { <<"d","b">>, <<"f","o","o">> }

Namespaces ==
    { <<"d","e","f","a","u","l","t">>, <<"n","s">> }

----------------------------------------------------------------------------
(* create_k8s_secret.py as a state machine *)

SecretIdle ==
    /\ kv_typed = <<>>
    /\ kv_input = <<>>
    /\ secret_name = <<>>
    /\ namespace = <<>>
    /\ key_value_pairs = <<>>
    /\ parse_outcome = "pending"
    /\ choice = ""
    /\ cmd = <<>>
    /\ secret_pc = "idle"

SaveIdle ==
    /\ files = <<>>
    /\ written = {}
    /\ save_calls = 0
    /\ last_save = [called |-> FALSE]

ImageIdle ==
    /\ manifest_lines = <<>>
    /\ deployment_content = <<>>
    /\ content_before = <<>>
    /\ base_images = <<>>
    /\ old_image = [name |-> <<>>, tag |-> <<>>]
    /\ new_image = [name |-> <<>>, tag |-> <<>>]
    /\ update_result = "none"
    /\ image_pc = "idle"

TagsIdle ==
    /\ kustomization = [state |-> "none"]
    /\ staging_images = <<>>
    /\ tags_pc = "idle"

PromoteIdle ==
    /\ cli_dry_run = FALSE
    /\ flux_detected = FALSE
    /\ dry_run = "unset"
    /\ staging_dir = <<>>
    /\ base_dir = <<>>
    /\ base_dir_initial = <<>>
    /\ promotions_available = <<>>
    /\ promo_idx = 0
    /\ answers = <<>>
    /\ update_log = <<>>
    /\ promote_pc = "idle"

RunIdle ==
    /\ run_secret = <<>>
    /\ use_sops = FALSE
    /\ run_choice = ""
    /\ run_cmds = <<>>
    /\ files_initial = <<>>
    /\ kubectl_result = "none"
    /\ sops_result = "none"
    /\ save_errors = {}
    /\ saved_files = <<>>
    /\ temp_file = "absent"
    /\ temp_created = FALSE
    /\ run_events = <<>>
    /\ exit_code = "none"
    /\ reported_success = FALSE
    /\ run_interrupted = FALSE
    /\ run_pc = "idle"

\* nothing printed yet under "Summary of Failing Resources"
NoSummary ==
    [printed |-> FALSE, rows |-> <<>>, fallback |-> FALSE]

InputIdle ==
    /\ sops_available = FALSE
    /\ in_typed = <<>>
    /\ in_tries = 0
    /\ in_secret_name = <<>>
    /\ in_namespace = <<>>
    /\ in_use_sops = FALSE
    /\ in_age_key = <<>>
    /\ in_pairs = <<>>
    /\ in_choice = ""
    /\ in_exit = "none"
    /\ in_pc = "idle"

ValidateIdle ==
    /\ val_tools = "present"
    /\ val_missing = {}
    /\ val_answer = <<>>
    /\ val_installs = <<>>
    /\ val_install = "none"
    /\ val_prompts = 0
    /\ val_install_calls = {}
    /\ val_output = "none"
    /\ val_cmds = <<>>
    /\ val_path = "empty"
    /\ val_kust = "missing"
    /\ val_build = "none"
    /\ val_kubeconform = "none"
    /\ val_temp = "absent"
    /\ val_temp_created = FALSE
    /\ val_raised = FALSE
    /\ val_interrupted = FALSE
    /\ val_exit = "none"
    /\ val_pc = "idle"

ReportIdle ==
    /\ rep_lines = <<>>
    /\ rep_map = <<>>
    /\ rep_idx = 0
    /\ rep_table = <<>>
    /\ rep_summary = NoSummary
    /\ rep_pc = "idle"

ScanIdle ==
    /\ scan_files = <<>>
    /\ resource_to_file_map = <<>>
    /\ scan_idx = 0
    /\ failed_resource = <<>>
    /\ file_location = <<>>
    /\ scan_pc = "idle"

PathsIdle ==
    /\ path_argv = <<>>
    /\ path_env = <<>>
    /\ path_existing = {}
    /\ path_args = "none"
    /\ path_result = "none"
    /\ path_pc = "idle"

\* the None a completer call returns
NoneResult ==
    [none |-> TRUE, value |-> <<>>]

CompleterIdle ==
    /\ comp_home = <<>>
    /\ comp_fs = <<>>
    /\ comp_matches = <<>>
    /\ comp_found = {}
    /\ comp_failed = FALSE
    /\ comp_text = <<>>
    /\ comp_state = 0
    /\ comp_result = NoneResult
    /\ comp_calls = 0

ToolsIdle ==
    /\ RunIdle
    /\ InputIdle
    /\ ValidateIdle
    /\ ReportIdle
    /\ ScanIdle
    /\ PathsIdle
    /\ CompleterIdle

\* get_user_inputs has a validated secret name and namespace and is about to
\* ask for the key/value pairs
InitSecret ==
    /\ ToolsIdle
    /\ kv_typed = <<>>
    /\ kv_input = <<>>
    /\ secret_name \in SecretNames
    /\ namespace \in Namespaces
    /\ key_value_pairs = <<>>
    /\ parse_outcome = "pending"
    /\ choice = ""
    /\ cmd = <<>>
    /\ secret_pc = "kv_prompt"
    /\ SaveIdle
    /\ ImageIdle
    /\ TagsIdle
    /\ PromoteIdle

\* get_user_inputs, one turn of the "Key/Value pairs" loop: read a line and
\* parse it; the loop is left on success
PromptKeyValuePairs ==
    /\ secret_pc = "kv_prompt"
    /\ \E typed \in TypedInputs :
         LET text == strip(RenderInput(typed, 1))
             r    == parse_key_value_input(text)
         IN  /\ kv_typed' = typed
             /\ kv_input' = text
             /\ parse_outcome' = r.outcome
             /\ key_value_pairs' = r.pairs
             /\ secret_pc' = IF r.outcome = "ok" THEN "confirm" ELSE "kv_error"
    /\ UNCHANGED <<secret_name, namespace, choice, cmd, saveVars, imageVars, tagsVars, promoteVars, toolVars>>

\* the except ValueError branch of that loop: the error is printed and the
\* prompt is shown again; nothing of the rejected line is kept
RetryKeyValuePairs ==
    /\ secret_pc = "kv_error"
    /\ kv_typed' = <<>>
    /\ kv_input' = <<>>
    /\ parse_outcome' = "pending"
    /\ key_value_pairs' = <<>>
    /\ secret_pc' = "kv_prompt"
    /\ UNCHANGED <<secret_name, namespace, choice, cmd, saveVars, imageVars, tagsVars, promoteVars, toolVars>>

\* confirm_action: the menu loop returns only '1', '2' or '3'; main returns
\* on '3'
ConfirmAction ==
    /\ secret_pc = "confirm"
    /\ \E c \in {"1", "2", "3"} :
         /\ choice' = c
         /\ secret_pc' = IF c = "3" THEN "cancelled" ELSE "build"
    /\ UNCHANGED <<kv_typed, kv_input, secret_name, namespace, key_value_pairs,
                   parse_outcome, cmd, saveVars, imageVars, tagsVars, promoteVars, toolVars>>

\* main: cmd = create_kubectl_command(secret_name, namespace, key_value_pairs)
CreateKubectlCommand ==
    /\ secret_pc = "build"
    /\ cmd' = create_kubectl_command(secret_name, namespace, key_value_pairs)
    /\ secret_pc' = "run"
    /\ UNCHANGED <<kv_typed, kv_input, secret_name, namespace, key_value_pairs,
                   parse_outcome, choice, saveVars, imageVars, tagsVars, promoteVars, toolVars>>

NextSecret ==
    \/ PromptKeyValuePairs
    \/ RetryKeyValuePairs
    \/ ConfirmAction
    \/ CreateKubectlCommand

SpecSecret ==
    InitSecret /\ [][NextSecret]_vars

----------------------------------------------------------------------------
(* save_yaml_to_file called repeatedly in one working directory *)

SopsSuffix ==
    <<"-","s","o","p","s">>

\* the two ways run_kubectl_command calls it: file_suffix "" and "-sops"
FileSuffixes ==
    { <<>>, SopsSuffix }

\* YAML texts handed to save_yaml_to_file (kubectl and sops output)
YamlContents ==
    { <<"p","1">>, <<"p","2">>, <<"e","n","c">> }

OldContent ==
    <<"o","l","d">>

\* files that may be in the directory before the first call
PreExistingNames ==
    { OriginalFilename(<<"f","o","o">>, <<>>),
      CounterFilename(OriginalFilename(<<"f","o","o">>, <<>>), 1),
      CounterFilename(OriginalFilename(<<"f","o","o">>, <<>>), 2),
      OriginalFilename(<<"f","o","o">>, SopsSuffix) }

InitSave ==
    /\ ToolsIdle
    /\ SecretIdle
    /\ ImageIdle
    /\ TagsIdle
    /\ PromoteIdle
    /\ \E present \in SUBSET PreExistingNames :
         files = [n \in present |-> OldContent]
    /\ written = {}
    /\ save_calls = 0
    /\ last_save = [called |-> FALSE]

\* save_yaml_to_file(yaml_content, secret_name, file_suffix) returning the
\* filename it wrote
SaveYamlToFile ==
    /\ save_calls < MaxSaveCalls
    /\ \E content \in YamlContents, name \in SecretNames, suffix \in FileSuffixes :
         LET filename == save_yaml_filename(name, suffix, DOMAIN files)
         IN  /\ files' = WriteFile(files, filename, content)
             /\ written' = written \cup {<<filename, content>>}
             /\ last_save' = [called |-> TRUE, secret |-> name, suffix |-> suffix,
                              content |-> content, before |-> files,
                              raised |-> FALSE, result |-> filename]
    /\ save_calls' = save_calls + 1
    /\ UNCHANGED <<secretVars, imageVars, tagsVars, promoteVars, toolVars>>

\* save_yaml_to_file when open() or write() fails: IOError is raised and the
\* directory is left as it was
SaveYamlToFileIOError ==
    /\ save_calls < MaxSaveCalls
    /\ \E content \in YamlContents, name \in SecretNames, suffix \in FileSuffixes :
         last_save' = [called |-> TRUE, secret |-> name, suffix |-> suffix,
                       content |-> content, before |-> files,
                       raised |-> TRUE, result |-> <<>>]
    /\ save_calls' = save_calls + 1
    /\ UNCHANGED <<files, written, secretVars, imageVars, tagsVars, promoteVars, toolVars>>

NextSave ==
    \/ SaveYamlToFile
    \/ SaveYamlToFileIOError

SpecSave ==
    InitSave /\ [][NextSave]_vars

----------------------------------------------------------------------------
(* Properties of parse_key_value_input and create_kubectl_command *)

HasQuoteOrSemicolon(v) ==
    \E i \in 1..Len(v) : v[i] \in {"\"", "'", ";"}

\* the typed line is made only of KEY: "VALUE" segments with distinct keys
\* of the Kubernetes key pattern and values free of quotes and semicolons
TypedInDocumentedFormat ==
    /\ kv_typed # <<>>
    /\ \A i \in 1..Len(kv_typed) :
         /\ kv_typed[i].form = "quoted"
         /\ KeyRegexMatch(kv_typed[i].key)
         /\ ~HasQuoteOrSemicolon(kv_typed[i].value)
    /\ \A i, j \in 1..Len(kv_typed) : kv_typed[i].key = kv_typed[j].key => i = j

\* C1: for a line of KEY: "VALUE" segments with distinct valid keys and
\* values without quote or semicolon, parse_key_value_input returns exactly
\* the dictionary mapping each key to the text between its quotes.
C1_ParseReturnsQuotedValues ==
    (parse_outcome # "pending" /\ TypedInDocumentedFormat)
        => /\ parse_outcome = "ok"
           /\ key_value_pairs = [i \in 1..Len(kv_typed) |->
                                   <<kv_typed[i].key, kv_typed[i].value>>]

\* the key of a segment of the line: the text before its first colon
SegmentKey(seg) ==
    strip(SubSeq(seg, 1, Find(seg, ":") - 1))

\* some non-empty segment of the line has a key outside the key pattern
SomeSegmentKeyInvalid(text) ==
    LET segs == split(text, ";")
    IN  \E i \in 1..Len(segs) :
            /\ strip(segs[i]) # <<>>
            /\ Find(segs[i], ":") > 0
            /\ ~KeyRegexMatch(SegmentKey(segs[i]))

\* C2: a line with any non-empty segment whose key does not match the key
\* pattern raises ValueError and returns no dictionary, wherever the segment
\* stands; every key of a returned dictionary matches the pattern.
C2_InvalidKeyRaises ==
    parse_outcome # "pending"
        => /\ SomeSegmentKeyInvalid(kv_input)
                => (parse_outcome = "ValueError" /\ key_value_pairs = <<>>)
           /\ parse_outcome = "ok"
                => \A i \in 1..Len(key_value_pairs) : KeyRegexMatch(key_value_pairs[i][1])

\* a line whose first segment is valid and whose second has a key starting
\* with a digit was rejected
C2_Witness ==
    /\ parse_outcome = "ValueError"
    /\ Len(kv_typed) = 2
    /\ kv_typed[1] = [form |-> "quoted", key |-> <<"a">>, value |-> <<"1">>]
    /\ kv_typed[2].form = "quoted"
    /\ kv_typed[2].key = <<"1","a">>

\* C8: the command is kubectl create secret generic <name> --namespace <ns>
\* followed by one --from-literal, <key>=<value> pair per dictionary entry,
\* in dictionary order, key and value verbatim.
C8_CommandShape ==
    secret_pc = "run"
        => /\ Len(cmd) = 7 + 2 * Len(key_value_pairs)
           /\ SubSeq(cmd, 1, 4) = KubectlHead
           /\ cmd[5] = secret_name
           /\ cmd[6] = <<"-","-","n","a","m","e","s","p","a","c","e">>
           /\ cmd[7] = namespace
           /\ \A i \in 1..Len(key_value_pairs) :
                /\ cmd[6 + 2 * i] = <<"-","-","f","r","o","m","-","l","i","t","e","r","a","l">>
                /\ cmd[7 + 2 * i] = key_value_pairs[i][1] \o <<"=">> \o key_value_pairs[i][2]
           /\ Cardinality({k \in 1..Len(cmd) : cmd[k] = FromLiteralFlag}) = Len(key_value_pairs)

\* a command was built from a dictionary of two entries, one with an empty value
C8_Witness ==
    /\ secret_pc = "run"
    /\ Len(key_value_pairs) = 2
    /\ key_value_pairs[1][2] # <<>>
    /\ key_value_pairs[2][2] = <<>>
    /\ Len(cmd) = 11

----------------------------------------------------------------------------
(* Properties of save_yaml_to_file *)

\* the k-th name of the sequence <name>-secret<suffix>.yaml,
\* <name>-secret<suffix>-1.yaml, <name>-secret<suffix>-2.yaml, ...
SaveCandidate(name, suffix, k) ==
    name \o <<"-","s","e","c","r","e","t">> \o suffix
         \o (IF k = 0 THEN <<>> ELSE <<"-">> \o IntToStr(k))
         \o <<".","y","a","m","l">>

\* C3: save_yaml_to_file never overwrites an existing file: it writes to,
\* and returns, the first name of the sequence <name>-secret<suffix>.yaml,
\* -1.yaml, -2.yaml, ... that does not exist, and every file that existed
\* before a call, or was written by an earlier call, keeps its content.
C3_SaveNeverOverwrites ==
    /\ \A w \in written : w[1] \in DOMAIN files /\ files[w[1]] = w[2]
    /\ last_save.called
         => /\ \A n \in DOMAIN last_save.before :
                 n \in DOMAIN files /\ files[n] = last_save.before[n]
            /\ ~last_save.raised
                 => /\ last_save.result \notin DOMAIN last_save.before
                    /\ files[last_save.result] = last_save.content
                    /\ \E k \in 0..Cardinality(DOMAIN last_save.before) :
                         /\ last_save.result
                              = SaveCandidate(last_save.secret, last_save.suffix, k)
                         /\ \A j \in 0..(k - 1) :
                              SaveCandidate(last_save.secret, last_save.suffix, j)
                                 \in DOMAIN last_save.before

\* foo-secret.yaml existed, a save for secret foo wrote foo-secret-1.yaml and
\* the original still has its old content
C3_Witness ==
    /\ last_save.called
    /\ ~last_save.raised
    /\ last_save.secret = <<"f","o","o">>
    /\ last_save.suffix = <<>>
    /\ SaveCandidate(<<"f","o","o">>, <<>>, 0) \in DOMAIN last_save.before
    /\ last_save.result = SaveCandidate(<<"f","o","o">>, <<>>, 1)
    /\ files[SaveCandidate(<<"f","o","o">>, <<>>, 0)] = OldContent

----------------------------------------------------------------------------
(* extract_base_images and update_base_image on one deployment file *)

\* at most this many lines in the deployment file
MaxManifestLines == 2

\* at most this many entries under images: in the kustomization file
MaxImageEntries == 2

AppName ==
    <<"a","p","p">>

LibName ==
    <<"l","i","b">>

TagV1 ==
    <<"v","1">>

TagV10 ==
    <<"v","1","0">>

TagV2 ==
    <<"v","2">>

\* a line of the manifest: an image line  image:<gap><quote>name:tag<quote>
\* or any other text (kept in the name field)
ManifestLineChoices ==
    [kind : {"image"}, gap : {<<" ">>, <<" ", " ">>}, quote : {<<>>, <<"\"">>},
     name : {AppName, LibName}, tag : {TagV1, TagV10}]
    \cup [kind : {"text"}, gap : {<<>>}, quote : {<<>>},
          name : {<<"n","a","m","e",":"," ","w","e","b">>,
                  <<"i","m","a","g","e",":"," ","n","g","i","n","x">>},
          tag : {<<>>}]

RenderLine(l) ==
    IF l.kind = "image"
    THEN ImageKey \o l.gap \o l.quote \o l.name \o <<":">> \o l.tag \o l.quote
    ELSE l.name

\* the file text: every line ended by a newline
RECURSIVE RenderManifest(_, _)
RenderManifest(lines, i) ==
    IF i > Len(lines) THEN <<>>
    ELSE RenderLine(lines[i]) \o <<"\n">> \o RenderManifest(lines, i + 1)

ManifestChoices ==
    UNION { [1..n -> ManifestLineChoices] : n \in 1..MaxManifestLines }

SeqRange(q) ==
    { q[i] : i \in 1..Len(q) }

\* tags a caller may promote to
NewTagChoices ==
    {TagV1, TagV2, TagV10}

InitImage ==
    /\ ToolsIdle
    /\ SecretIdle
    /\ SaveIdle
    /\ TagsIdle
    /\ PromoteIdle
    /\ manifest_lines \in ManifestChoices
    /\ deployment_content = RenderManifest(manifest_lines, 1)
    /\ content_before = deployment_content
    /\ base_images = <<>>
    /\ old_image = ImageVersion(<<>>, <<>>)
    /\ new_image = ImageVersion(<<>>, <<>>)
    /\ update_result = "none"
    /\ image_pc = "read"

\* base_images = extract_base_images(deployment_file)
ExtractBaseImages ==
    /\ image_pc = "read"
    /\ base_images' = extract_base_images(deployment_content)
    /\ image_pc' = "extracted"
    /\ UNCHANGED <<manifest_lines, deployment_content, content_before, old_image,
                   new_image, update_result, secretVars, saveVars, tagsVars, promoteVars, toolVars>>

\* update_base_image(deployment_file, old_image, new_image) for an extracted
\* image, or one the file may not hold, and a new image of the same name
UpdateBaseImage ==
    /\ image_pc = "extracted"
    /\ \E old \in SeqRange(base_images)
                    \cup {ImageVersion(AppName, TagV1), ImageVersion(LibName, TagV2)},
          tag \in NewTagChoices :
         LET new == ImageVersion(old.name, tag)
             r   == update_base_image(deployment_content, old, new)
         IN  /\ old_image' = old
             /\ new_image' = new
             /\ content_before' = deployment_content
             /\ deployment_content' = r.content
             /\ update_result' = r.result
    /\ image_pc' = "updated"
    /\ UNCHANGED <<manifest_lines, base_images, secretVars, saveVars, tagsVars, promoteVars, toolVars>>

NextImage ==
    \/ ExtractBaseImages
    \/ UpdateBaseImage

SpecImage ==
    InitImage /\ [][NextImage]_vars

----------------------------------------------------------------------------
(* extract_new_tags on one kustomization file *)

\* an entry of the images list: a mapping with or without name and newTag,
\* or a null item
ImageEntryChoices ==
    [null : {FALSE}, has_name : {TRUE}, name : {AppName, LibName},
     has_newTag : {TRUE}, newTag : {TagV1, TagV2}]
    \cup [null : {FALSE}, has_name : {TRUE}, name : {AppName},
          has_newTag : {FALSE}, newTag : {<<>>}]
    \cup [null : {FALSE}, has_name : {FALSE}, name : {<<>>},
          has_newTag : BOOLEAN, newTag : {<<>>}]
    \cup [null : {TRUE}, has_name : {FALSE}, name : {<<>>},
          has_newTag : {FALSE}, newTag : {<<>>}]

KustomizationChoices ==
    [state : {"unreadable", "unparseable", "empty"}, has_images : {FALSE},
     images_null : {FALSE}, images : {<<>>}]
    \cup [state : {"mapping"}, has_images : {FALSE}, images_null : {FALSE},
          images : {<<>>}]
    \cup [state : {"mapping"}, has_images : {TRUE}, images_null : {TRUE},
          images : {<<>>}]
    \cup [state : {"mapping"}, has_images : {TRUE}, images_null : {FALSE},
          images : UNION { [1..n -> ImageEntryChoices] : n \in 0..MaxImageEntries }]

InitTags ==
    /\ ToolsIdle
    /\ SecretIdle
    /\ SaveIdle
    /\ ImageIdle
    /\ PromoteIdle
    /\ kustomization \in KustomizationChoices
    /\ staging_images = <<>>
    /\ tags_pc = "file"

\* staging_images = extract_new_tags(kust_file)
ExtractNewTags ==
    /\ tags_pc = "file"
    /\ staging_images' = extract_new_tags(kustomization)
    /\ tags_pc' = "extracted"
    /\ UNCHANGED <<kustomization, secretVars, saveVars, imageVars, promoteVars, toolVars>>

NextTags ==
    ExtractNewTags

SpecTags ==
    InitTags /\ [][NextTags]_vars

----------------------------------------------------------------------------
(* Properties of extract_base_images, update_base_image, extract_new_tags *)

\* text t occurs in s
Contains(s, t) ==
    \E p \in 1..(Len(s) - Len(t) + 1) : SubSeq(s, p, p + Len(t) - 1) = t

RefAppV1 ==
    <<"i","m","a","g","e",":"," ","a","p","p",":","v","1">>

RefAppV2 ==
    <<"i","m","a","g","e",":"," ","a","p","p",":","v","2">>

\* C4: substituting (app, v1) by (app, v2) in text containing image: app:v1
\* yields text containing image: app:v2 in which every line that is not a
\* reference to exactly app:v1 is unchanged, image: app:v10 included.
C4_OnlyTargetedReferenceChanges ==
    (/\ image_pc = "updated"
     /\ old_image = ImageVersion(AppName, TagV1)
     /\ new_image = ImageVersion(AppName, TagV2)
     /\ \E i \in 1..Len(manifest_lines) : RenderLine(manifest_lines[i]) = RefAppV1)
        => LET after == split(deployment_content, "\n")
           IN  /\ Contains(deployment_content, RefAppV2)
               /\ Len(after) = Len(manifest_lines) + 1
               /\ \A i \in 1..Len(manifest_lines) :
                    ~(/\ manifest_lines[i].kind = "image"
                      /\ manifest_lines[i].name = AppName
                      /\ manifest_lines[i].tag = TagV1)
                        => after[i] = RenderLine(manifest_lines[i])

\* the (name, tag) pairs of the image lines, in file order
RECURSIVE ImagesOfLines(_, _)
ImagesOfLines(lines, i) ==
    IF i > Len(lines) THEN <<>>
    ELSE (IF lines[i].kind = "image"
          THEN <<[name |-> lines[i].name, tag |-> lines[i].tag]>> ELSE <<>>)
         \o ImagesOfLines(lines, i + 1)

\* C10: extract_base_images returns one (name, tag) pair per image line, in
\* order, quotes removed; and updating a pair that comes from an unquoted
\* image line to a different tag changes the file and returns True.
C10_ExtractedPairsCanBeUpdated ==
    /\ image_pc \in {"extracted", "updated"}
         => base_images = ImagesOfLines(manifest_lines, 1)
    /\ (/\ image_pc = "updated"
        /\ new_image.tag # old_image.tag
        /\ \E i \in 1..Len(manifest_lines) :
             /\ manifest_lines[i].kind = "image"
             /\ manifest_lines[i].quote = <<>>
             /\ manifest_lines[i].name = old_image.name
             /\ manifest_lines[i].tag = old_image.tag)
         => (update_result = TRUE /\ deployment_content # content_before)

\* a file with a quoted and an unquoted image line was extracted and the
\* unquoted pair was updated to another tag
C10_Witness ==
    /\ image_pc = "updated"
    /\ Len(manifest_lines) = 2
    /\ manifest_lines[1].kind = "image" /\ manifest_lines[1].quote # <<>>
    /\ manifest_lines[2].kind = "image" /\ manifest_lines[2].quote = <<>>
    /\ manifest_lines[1].name # manifest_lines[2].name
    /\ old_image = ImageVersion(manifest_lines[2].name, manifest_lines[2].tag)
    /\ new_image.tag = TagV2
    /\ update_result = TRUE

\* the entries that are mappings with both fields, as image versions
RECURSIVE CompleteEntries(_, _)
CompleteEntries(entries, i) ==
    IF i > Len(entries) THEN <<>>
    ELSE (IF entries[i].has_name /\ entries[i].has_newTag
          THEN <<[name |-> entries[i].name, tag |-> entries[i].newTag]>> ELSE <<>>)
         \o CompleteEntries(entries, i + 1)

\* C9: extract_new_tags returns, in file order, one image version for each
\* entry of images that has both name and newTag; entries lacking either
\* contribute nothing; no images, an empty or an unreadable file give [].
C9_OneVersionPerCompleteEntry ==
    tags_pc = "extracted"
        => staging_images =
             IF kustomization.state = "mapping" /\ kustomization.has_images
             THEN CompleteEntries(kustomization.images, 1)
             ELSE <<>>

----------------------------------------------------------------------------
(* promote_images.py: find_base_deployment_files and the comparison loop *)

UpperSeq ==
    <<"A","B","C","D","E","F","G","H","I","J","K","L","M",
      "N","O","P","Q","R","S","T","U","V","W","X","Y","Z">>

LowerSeq ==
    <<"a","b","c","d","e","f","g","h","i","j","k","l","m",
      "n","o","p","q","r","s","t","u","v","w","x","y","z">>

\* str.lower()
lower(s) ==
    [i \in 1..Len(s) |->
        IF s[i] \in Upper
        THEN LowerSeq[CHOOSE k \in 1..26 : UpperSeq[k] = s[i]]
        ELSE s[i]]

\* t occurs in s (the Python  t in s)
InStr(t, s) ==
    \E p \in 1..(Len(s) - Len(t) + 1) : SubSeq(s, p, p + Len(t) - 1) = t

\* the file name matches glob("*.yaml")
GlobYaml(name) ==
    /\ Len(name) >= Len(YamlExt)
    /\ SubSeq(name, Len(name) - Len(YamlExt) + 1, Len(name)) = YamlExt

IsDeploymentName(name) ==
    \/ InStr(<<"d","e","p","l","o","y","m","e","n","t">>, lower(name))
    \/ InStr(<<"s","t","a","t","e","f","u","l","s","e","t">>, lower(name))

\* the indices, in listing order, of the files of an app directory that
\* find_base_deployment_files keeps
RECURSIVE DeploymentIndices(_, _)
DeploymentIndices(dirfiles, i) ==
    IF i > Len(dirfiles) THEN <<>>
    ELSE (IF GlobYaml(dirfiles[i].name) /\ IsDeploymentName(dirfiles[i].name)
          THEN <<i>> ELSE <<>>)
         \o DeploymentIndices(dirfiles, i + 1)

\* find_base_deployment_files(base_dir, app_name): [] when the app has no
\* directory under the base path
find_base_deployment_files(base, app) ==
    IF app \notin DOMAIN base THEN <<>>
    ELSE DeploymentIndices(base[app], 1)

\* the inner  for base_image in file_base_images  loop: the first image of
\* the list with the staging image's name, 0 when none
RECURSIVE FirstWithName(_, _, _)
FirstWithName(images, name, j) ==
    IF j > Len(images) THEN 0
    ELSE IF images[j].name = name THEN j
    ELSE FirstWithName(images, name, j + 1)

\* the  for base_file in base_deployment_files  loop from the i-th kept file
RECURSIVE FindMatchingBase(_, _, _, _)
FindMatchingBase(dirfiles, kept, i, name) ==
    IF i > Len(kept) THEN [found |-> FALSE, file |-> 0, image |-> ImageVersion(<<>>, <<>>)]
    ELSE LET imgs == extract_base_images(dirfiles[kept[i]].content)
             j    == FirstWithName(imgs, name, 1)
         IN  IF j > 0 THEN [found |-> TRUE, file |-> kept[i], image |-> imgs[j]]
             ELSE FindMatchingBase(dirfiles, kept, i + 1, name)

\* the  for staging_image in staging_images  loop from image i: the
\* promotions it appends
RECURSIVE ComparePromotions(_, _, _, _, _)
ComparePromotions(app, staging, dirfiles, kept, i) ==
    IF i > Len(staging) THEN <<>>
    ELSE LET m == FindMatchingBase(dirfiles, kept, 1, staging[i].name)
         IN  (IF m.found /\ m.image.tag # staging[i].tag
              THEN <<[app |-> app, image_name |-> staging[i].name,
                      current_tag |-> m.image.tag, new_tag |-> staging[i].tag,
                      base_file |-> m.file, staging_image |-> staging[i],
                      base_image |-> m.image]>>
              ELSE <<>>)
             \o ComparePromotions(app, staging, dirfiles, kept, i + 1)

\* the body of  for kust_file in kustomization_files  for one file
AppPromotions(kust_file, base) ==
    LET staging == extract_new_tags(kust_file.kust)
        kept    == find_base_deployment_files(base, kust_file.app)
    IN  IF staging = <<>> \/ kept = <<>> THEN <<>>
        ELSE ComparePromotions(kust_file.app, staging, base[kust_file.app], kept, 1)

\* the  for kust_file in kustomization_files  loop from file i
RECURSIVE AllPromotions(_, _, _)
AllPromotions(kust_files, base, i) ==
    IF i > Len(kust_files) THEN <<>>
    ELSE AppPromotions(kust_files[i], base) \o AllPromotions(kust_files, base, i + 1)

\* the base directory with the content of one file replaced
WriteBaseFile(base, app, idx, content) ==
    [base EXCEPT ![app] = [@ EXCEPT ![idx] = [@ EXCEPT !.content = content]]]

\* a promotion loop that writes the file whatever the answer
PromotionOutcomeAlwaysWrites(answer, base, promo) ==
    LET r == update_base_image(base[promo.app][promo.base_file].content,
                               promo.base_image, promo.staging_image)
    IN  [base |-> WriteBaseFile(base, promo.app, promo.base_file, r.content),
         log  |-> <<r.result>>]

\* one turn of the  for promo in promotions_available  loop: the base
\* directory after it and what update_base_image returned, if called
PromotionOutcome(answer, base, promo) ==
    IF answer
    THEN LET r == update_base_image(base[promo.app][promo.base_file].content,
                                    promo.base_image, promo.staging_image)
         IN  [base |-> WriteBaseFile(base, promo.app, promo.base_file, r.content),
              log  |-> <<r.result>>]
    ELSE [base |-> base, log |-> <<>>]

----------------------------------------------------------------------------
(* compare_and_promote_images as a state machine *)

\* at most this many lines in the deployment file of the promoted app
MaxBaseLines == 2

\* at most this many images: entries in the staging kustomization
MaxStagingImages == 2

ImageLine(name, tag) ==
    [kind |-> "image", gap |-> <<" ">>, quote |-> <<>>, name |-> name, tag |-> tag]

\* an image line with the reference in double quotes
QuotedImageLine(name, tag) ==
    [kind |-> "image", gap |-> <<" ">>, quote |-> <<"\"">>, name |-> name, tag |-> tag]

BaseLineChoices ==
    { ImageLine(AppName, TagV1), ImageLine(AppName, TagV2),
      ImageLine(AppName, TagV10), ImageLine(LibName, TagV1),
      QuotedImageLine(AppName, TagV1) }

BaseTextChoices ==
    { RenderManifest(lines, 1) :
        lines \in UNION { [1..n -> BaseLineChoices] : n \in 0..MaxBaseLines } }

StagingEntry(name, tag) ==
    [null |-> FALSE, has_name |-> TRUE, name |-> name, has_newTag |-> TRUE, newTag |-> tag]

StagingKustomization(entries) ==
    [state |-> "mapping", has_images |-> TRUE, images_null |-> FALSE, images |-> entries]

StagingKustomizationChoices ==
    { StagingKustomization(entries) :
        entries \in UNION { [1..n -> {StagingEntry(AppName, TagV2), StagingEntry(LibName, TagV2)}] :
                            n \in 0..MaxStagingImages } }

BaseFile(name, content) ==
    [name |-> name, content |-> content]

DeploymentYaml ==
    <<"d","e","p","l","o","y","m","e","n","t",".","y","a","m","l">>

StatefulSetYaml ==
    <<"a","p","p","-","S","t","a","t","e","f","u","l","S","e","t",".","y","a","m","l">>

ServiceYaml ==
    <<"s","e","r","v","i","c","e",".","y","a","m","l">>

AppV1Text ==
    RenderManifest(<<ImageLine(AppName, TagV1)>>, 1)

\* the base path: directory web (a service file, the deployment, perhaps a
\* stateful set) and directory api; no directory for app new
BaseDirChoices ==
    { [web |-> <<BaseFile(ServiceYaml, AppV1Text), BaseFile(DeploymentYaml, text)>> \o extra,
       api |-> <<BaseFile(DeploymentYaml, AppV1Text)>>] :
        text \in BaseTextChoices,
        extra \in { <<>>, <<BaseFile(StatefulSetYaml, AppV1Text)>> } }

InitPromote ==
    /\ ToolsIdle
    /\ SecretIdle
    /\ SaveIdle
    /\ ImageIdle
    /\ TagsIdle
    /\ cli_dry_run \in BOOLEAN
    /\ flux_detected \in BOOLEAN
    /\ dry_run = "unset"
    /\ \E k \in StagingKustomizationChoices :
         staging_dir = << [app |-> "web", kust |-> k],
                          [app |-> "new",
                           kust |-> StagingKustomization(<<StagingEntry(AppName, TagV2)>>)] >>
    /\ base_dir \in BaseDirChoices
    /\ base_dir_initial = base_dir
    /\ promotions_available = <<>>
    /\ promo_idx = 0
    /\ answers = <<>>
    /\ update_log = <<>>
    /\ promote_pc = "start"

\* detect_flux_structure found both directories and the user accepts them:
\* the paths are taken and dry_run is set to False
AcceptAutoDetectedPaths ==
    /\ promote_pc = "start"
    /\ flux_detected
    /\ dry_run' = FALSE
    /\ promote_pc' = "scan"
    /\ UNCHANGED <<cli_dry_run, flux_detected, staging_dir, base_dir, base_dir_initial,
                   promotions_available, promo_idx, answers, update_log,
                   secretVars, saveVars, imageVars, tagsVars, toolVars>>

\* nothing was detected, or the user declined: get_paths_from_args_or_env
\* parses the command line and returns args.dry_run
GetPathsFromArgsOrEnv ==
    /\ promote_pc = "start"
    /\ dry_run' = cli_dry_run
    /\ promote_pc' = "scan"
    /\ UNCHANGED <<cli_dry_run, flux_detected, staging_dir, base_dir, base_dir_initial,
                   promotions_available, promo_idx, answers, update_log,
                   secretVars, saveVars, imageVars, tagsVars, toolVars>>

\* the scan of the staging kustomizations, the promotion table, and the
\* return in dry-run mode or when nothing is to promote
ScanStaging ==
    /\ promote_pc = "scan"
    /\ promotions_available' = AllPromotions(staging_dir, base_dir, 1)
    /\ promo_idx' = 1
    /\ promote_pc' = IF promotions_available' = <<>> \/ dry_run = TRUE
                     THEN "done" ELSE "ask"
    /\ UNCHANGED <<cli_dry_run, flux_detected, dry_run, staging_dir, base_dir,
                   base_dir_initial, answers, update_log,
                   secretVars, saveVars, imageVars, tagsVars, toolVars>>

\* one turn of the promotion loop: Confirm.ask, then update_base_image or skip
AskPromotion ==
    /\ promote_pc = "ask"
    /\ \E answer \in BOOLEAN :
         LET r == PromotionOutcome(answer, base_dir, promotions_available[promo_idx])
         IN  /\ answers' = Append(answers, answer)
             /\ base_dir' = r.base
             /\ update_log' = update_log \o r.log
    /\ promo_idx' = promo_idx + 1
    /\ promote_pc' = IF promo_idx = Len(promotions_available) THEN "done" ELSE "ask"
    /\ UNCHANGED <<cli_dry_run, flux_detected, dry_run, staging_dir, base_dir_initial,
                   promotions_available, secretVars, saveVars, imageVars, tagsVars, toolVars>>

NextPromote ==
    \/ AcceptAutoDetectedPaths
    \/ GetPathsFromArgsOrEnv
    \/ ScanStaging
    \/ AskPromotion

SpecPromote ==
    InitPromote /\ [][NextPromote]_vars

----------------------------------------------------------------------------
(* Properties of the promotion run *)

\* C5: with --dry-run no file under the base directory is modified on any
\* path, whatever is answered (accepting the auto-detected paths included),
\* and update_base_image is never called.
C5_DryRunModifiesNothing ==
    cli_dry_run => (base_dir = base_dir_initial /\ update_log = <<>>)

\* the images of a text whose name is not `name`
RECURSIVE ImagesNotNamed(_, _, _)
ImagesNotNamed(images, name, i) ==
    IF i > Len(images) THEN <<>>
    ELSE (IF images[i].name # name THEN <<images[i]>> ELSE <<>>)
         \o ImagesNotNamed(images, name, i + 1)

\* a step that changes the base directory answers yes to the promotion at
\* promo_idx and touches only that promotion's file, leaving the references
\* to other images in it as they were
C6_WriteIsConfirmedPromotion ==
    base_dir' # base_dir
        => /\ promote_pc = "ask"
           /\ answers' = Append(answers, TRUE)
           /\ LET promo == promotions_available[promo_idx]
              IN  /\ \A app \in DOMAIN base_dir : \A i \in 1..Len(base_dir[app]) :
                        (app # promo.app \/ i # promo.base_file)
                            => base_dir'[app][i] = base_dir[app][i]
                  /\ base_dir'[promo.app][promo.base_file].name
                        = base_dir[promo.app][promo.base_file].name
                  /\ ImagesNotNamed(extract_base_images(
                         base_dir'[promo.app][promo.base_file].content), promo.image_name, 1)
                     = ImagesNotNamed(extract_base_images(
                         base_dir[promo.app][promo.base_file].content), promo.image_name, 1)

\* a step that records an answer asks about the promotion at promo_idx, the
\* next in list order, and a declined promotion leaves the base directory alone
C6_AskedOnceInOrder ==
    answers' # answers
        => /\ Len(answers) = promo_idx - 1
           /\ Len(answers') = promo_idx
           /\ promo_idx' = promo_idx + 1
           /\ promo_idx <= Len(promotions_available)
           /\ answers'[promo_idx] = FALSE => base_dir' = base_dir

\* C6: a base file is rewritten only in the step in which the user confirms
\* the promotion of that image; declined promotions and images never offered
\* leave the files unchanged; every offered promotion is asked about exactly
\* once, in list order.
C6_RewriteOnlyAfterConfirmation ==
    /\ [][C6_WriteIsConfirmedPromotion /\ C6_AskedOnceInOrder]_vars
    /\ [](promote_pc = "done" /\ answers # <<>>
            => Len(answers) = Len(promotions_available))
    /\ [](\A app \in DOMAIN base_dir : \A i \in 1..Len(base_dir[app]) :
            (\A k \in 1..Len(answers) :
                ~(answers[k] /\ promotions_available[k].app = app
                             /\ promotions_available[k].base_file = i))
                => base_dir[app][i] = base_dir_initial[app][i])

\* two promotions were offered, the first was declined and the second
\* confirmed, and the confirmed one's file was rewritten
C6_Witness ==
    /\ promote_pc = "done"
    /\ answers = <<FALSE, TRUE>>
    /\ update_log = <<TRUE>>
    /\ base_dir # base_dir_initial

\* some deployment/statefulset manifest of the app holds an image of that
\* name with another tag
SomeBaseImageDiffers(app, image) ==
    /\ app \in DOMAIN base_dir_initial
    /\ \E i \in 1..Len(base_dir_initial[app]) :
         /\ GlobYaml(base_dir_initial[app][i].name)
         /\ IsDeploymentName(base_dir_initial[app][i].name)
         /\ \E b \in SeqRange(extract_base_images(base_dir_initial[app][i].content)) :
              b.name = image.name /\ b.tag # image.tag

\* C7: a promotion is offered for a staging image if and only if some
\* deployment/statefulset manifest of the same app holds an image of the
\* same name with a different tag.
C7_OfferedIffSomeBaseImageDiffers ==
    promote_pc \in {"ask", "done"}
        => \A f \in 1..Len(staging_dir) :
             \A s \in SeqRange(extract_new_tags(staging_dir[f].kust)) :
                (\E k \in 1..Len(promotions_available) :
                    /\ promotions_available[k].app = staging_dir[f].app
                    /\ promotions_available[k].staging_image = s)
                <=> SomeBaseImageDiffers(staging_dir[f].app, s)

----------------------------------------------------------------------------
(* create_k8s_secret.py: main and run_kubectl_command as a state machine *)

\* result.stdout of kubectl create secret ... --dry-run=client -o yaml
KubectlYaml ==
    <<"p","1">>

\* result.stdout of sops --encrypt
EncryptedYaml ==
    <<"e","n","c">>

\* how a subprocess.run(..., check=True) call can end
SubprocessOutcomes ==
    {"ok", "failed", "notfound"}

\* the encryption block skipped
AfterPlainSaveNoSops(sops) ==
    "finish"

\* if use_sops and age_key: the step after the plain file was handled
AfterPlainSave(sops) ==
    IF sops THEN "sops_temp" ELSE "finish"

\* the unlink done only after a successful sops run
TempKeptOnFailure(outcome, temp) ==
    IF outcome = "ok" THEN "absent" ELSE temp

\* the finally clause of encrypt_with_sops: os.unlink(temp_file_path)
TempAfterFinally(outcome, temp) ==
    "absent"

\* check_sops_availability, called by get_user_inputs before the menu
SopsVersionCommand ==
    "sops --version"

KubectlCommand ==
    "kubectl create secret"

SopsEncryptCommand ==
    "sops --encrypt"

\* every choice taken for a dry run
DryRunAlways(c) ==
    TRUE

\* dry_run = (choice == '2')
DryRunOf(c) ==
    c = "2"

\* what main does with the value run_kubectl_command returned
ExitOfMain(success) ==
    IF success THEN 0 ELSE 1

InitRun ==
    /\ SecretIdle
    /\ ImageIdle
    /\ TagsIdle
    /\ PromoteIdle
    /\ InputIdle
    /\ ValidateIdle
    /\ ReportIdle
    /\ ScanIdle
    /\ PathsIdle
    /\ CompleterIdle
    /\ run_secret \in SecretNames
    /\ use_sops \in BOOLEAN
    /\ run_choice \in {"1", "2", "3"}
    /\ run_cmds = <<SopsVersionCommand>>
    /\ \E present \in SUBSET PreExistingNames :
         files = [n \in present |-> OldContent]
    /\ files_initial = files
    /\ written = {}
    /\ save_calls = 0
    /\ last_save = [called |-> FALSE]
    /\ kubectl_result = "none"
    /\ sops_result = "none"
    /\ save_errors = {}
    /\ saved_files = <<>>
    /\ temp_file = "absent"
    /\ temp_created = FALSE
    /\ run_events = <<>>
    /\ exit_code = "none"
    /\ reported_success = FALSE
    /\ run_interrupted = FALSE
    /\ run_pc = "main"

\* choice == '3': "Operation cancelled." and return
MainCancel ==
    /\ run_pc = "main"
    /\ run_choice = "3"
    /\ exit_code' = 0
    /\ run_pc' = "exited"
    /\ UNCHANGED <<run_secret, use_sops, run_choice, run_cmds, files_initial, kubectl_result,
                   sops_result, save_errors, saved_files, temp_file, temp_created,
                   run_events, reported_success, run_interrupted,
                   secretVars, saveVars, imageVars, tagsVars, promoteVars, inputVars, valVars, repVars, scanVars, pathVars, compVars>>

\* subprocess.run(cmd, check=True) in run_kubectl_command; on failure the
\* function returns False and main exits 1, on a real creation it returns
\* True and main reports the secret created
RunKubectl ==
    /\ run_pc = "main"
    /\ run_choice \in {"1", "2"}
    /\ \E r \in SubprocessOutcomes :
         /\ kubectl_result' = r
         /\ IF r = "ok" /\ DryRunOf(run_choice)
            THEN /\ run_pc' = "save_plain"
                 /\ UNCHANGED <<exit_code, reported_success>>
            ELSE /\ run_pc' = "exited"
                 /\ exit_code' = ExitOfMain(r = "ok")
                 /\ reported_success' = (r = "ok")
    /\ run_cmds' = Append(run_cmds, KubectlCommand)
    /\ UNCHANGED <<run_secret, use_sops, run_choice, files_initial, sops_result,
                   save_errors, saved_files, temp_file, temp_created, run_events,
                   run_interrupted, secretVars, saveVars, imageVars, tagsVars, promoteVars, inputVars, valVars, repVars, scanVars, pathVars, compVars>>

\* one save_yaml_to_file call of the dry run inside its try/except IOError
SaveStep(suffix, content, raised) ==
    IF raised
    THEN /\ save_errors' = save_errors \cup {suffix}
         /\ UNCHANGED <<files, written, saved_files>>
    ELSE LET filename == save_yaml_filename(run_secret, suffix, DOMAIN files)
         IN  /\ files' = WriteFile(files, filename, content)
             /\ written' = written \cup {<<filename, content>>}
             /\ saved_files' = Append(saved_files, filename)
             /\ UNCHANGED save_errors

\* "Always save the plain YAML file first"
SavePlain ==
    /\ run_pc = "save_plain"
    /\ \E raised \in BOOLEAN : SaveStep(<<>>, KubectlYaml, raised)
    /\ run_events' = Append(run_events, "save_plain")
    /\ run_pc' = AfterPlainSave(use_sops)
    /\ UNCHANGED <<run_secret, use_sops, run_choice, run_cmds, files_initial, kubectl_result,
                   sops_result, temp_file, temp_created, exit_code, reported_success,
                   run_interrupted, save_calls, last_save,
                   secretVars, imageVars, tagsVars, promoteVars, inputVars, valVars, repVars, scanVars, pathVars, compVars>>

\* encrypt_with_sops up to the try: the plaintext is written to a temporary file
EncryptWriteTemp ==
    /\ run_pc = "sops_temp"
    /\ temp_file' = KubectlYaml
    /\ temp_created' = TRUE
    /\ run_events' = Append(run_events, "sops")
    /\ run_pc' = "sops_run"
    /\ UNCHANGED <<run_secret, use_sops, run_choice, run_cmds, files_initial, kubectl_result,
                   sops_result, save_errors, saved_files, exit_code, reported_success,
                   run_interrupted, secretVars, saveVars, imageVars, tagsVars, promoteVars, inputVars, valVars, repVars, scanVars, pathVars, compVars>>

\* the try/finally of encrypt_with_sops: sops runs, the temporary file is
\* unlinked, and the result is returned or the exception reaches the handlers
\* of run_kubectl_command (FileNotFoundError is caught as IOError there)
EncryptRunSops ==
    /\ run_pc = "sops_run"
    /\ \E r \in SubprocessOutcomes :
         /\ sops_result' = r
         /\ temp_file' = TempAfterFinally(r, temp_file)
         /\ run_pc' = IF r = "ok" THEN "save_sops" ELSE "finish"
    /\ run_cmds' = Append(run_cmds, SopsEncryptCommand)
    /\ UNCHANGED <<run_secret, use_sops, run_choice, files_initial, kubectl_result,
                   save_errors, saved_files, temp_created, run_events, exit_code,
                   reported_success, run_interrupted,
                   secretVars, saveVars, imageVars, tagsVars, promoteVars, inputVars, valVars, repVars, scanVars, pathVars, compVars>>

\* save_yaml_to_file(encrypted_yaml, secret_name, "-sops")
SaveEncrypted ==
    /\ run_pc = "save_sops"
    /\ \E raised \in BOOLEAN : SaveStep(SopsSuffix, EncryptedYaml, raised)
    /\ run_events' = Append(run_events, "save_sops")
    /\ run_pc' = "finish"
    /\ UNCHANGED <<run_secret, use_sops, run_choice, run_cmds, files_initial, kubectl_result,
                   sops_result, temp_file, temp_created, exit_code, reported_success,
                   run_interrupted, save_calls, last_save,
                   secretVars, imageVars, tagsVars, promoteVars, inputVars, valVars, repVars, scanVars, pathVars, compVars>>

\* the summary and preview, return True, and main's "Dry run completed
\* successfully!" branch
FinishDryRun ==
    /\ run_pc = "finish"
    /\ exit_code' = ExitOfMain(TRUE)
    /\ reported_success' = TRUE
    /\ run_pc' = "exited"
    /\ UNCHANGED <<run_secret, use_sops, run_choice, run_cmds, files_initial, kubectl_result,
                   sops_result, save_errors, saved_files, temp_file, temp_created,
                   run_events, run_interrupted,
                   secretVars, saveVars, imageVars, tagsVars, promoteVars, inputVars, valVars, repVars, scanVars, pathVars, compVars>>

\* KeyboardInterrupt anywhere in main: a pending finally of encrypt_with_sops
\* runs, then main's handler calls sys.exit(0)
InterruptRun ==
    /\ run_pc \in {"main", "save_plain", "sops_temp", "sops_run", "save_sops", "finish"}
    /\ run_interrupted' = TRUE
    /\ temp_file' = IF run_pc = "sops_run"
                    THEN TempAfterFinally("interrupted", temp_file) ELSE temp_file
    /\ exit_code' = 0
    /\ run_pc' = "exited"
    /\ UNCHANGED <<run_secret, use_sops, run_choice, run_cmds, files_initial, kubectl_result,
                   sops_result, save_errors, saved_files, temp_created, run_events,
                   reported_success, secretVars, saveVars, imageVars, tagsVars, promoteVars, inputVars, valVars, repVars, scanVars, pathVars, compVars>>

NextRun ==
    \/ MainCancel
    \/ RunKubectl
    \/ SavePlain
    \/ EncryptWriteTemp
    \/ EncryptRunSops
    \/ SaveEncrypted
    \/ FinishDryRun
    \/ InterruptRun

SpecRun ==
    InitRun /\ [][NextRun]_vars

----------------------------------------------------------------------------
(* Properties of the create_k8s_secret run *)

\* <secret>-secret<suffix>.yaml or one of its numbered variants
IsSecretFileName(n, suffix) ==
    LET original == run_secret \o <<"-","s","e","c","r","e","t">> \o suffix
                    \o <<".","y","a","m","l">>
    IN  \/ n = original
        \/ \E k \in 1..(Cardinality(DOMAIN files_initial) + 1) :
             n = run_secret \o <<"-","s","e","c","r","e","t">> \o suffix
                 \o <<"-">> \o IntToStr(k) \o <<".","y","a","m","l">>

\* the files this run has added to the working directory
NewFiles ==
    DOMAIN files \ DOMAIN files_initial

NewPlainFiles ==
    { n \in NewFiles : IsSecretFileName(n, <<>>) /\ files[n] = KubectlYaml }

NewEncryptedFiles ==
    { n \in NewFiles : IsSecretFileName(n, <<"-","s","o","p","s">>)
                       /\ files[n] = EncryptedYaml }

IsPrefix(p, q) ==
    Len(p) <= Len(q) /\ SubSeq(q, 1, Len(p)) = p

C11_Order ==
    IsPrefix(run_events, <<"save_plain", "sops", "save_sops">>)

C11_PlainStays ==
    (\E i \in 1..Len(run_events) : run_events[i] = "sops") /\ <<>> \notin save_errors
        => Cardinality(NewPlainFiles) = 1

C11_BothWritten ==
    (/\ run_pc = "exited" /\ ~run_interrupted
     /\ run_choice = "2" /\ use_sops
     /\ kubectl_result = "ok" /\ sops_result \notin {"failed", "notfound"}
     /\ save_errors = {})
        => /\ Cardinality(NewPlainFiles) = 1
           /\ Cardinality(NewEncryptedFiles) = 1
           /\ NewFiles = NewPlainFiles \cup NewEncryptedFiles

C11_OnlyPlain ==
    (~use_sops \/ sops_result \in {"failed", "notfound"})
        => /\ NewFiles = NewPlainFiles
           /\ (run_pc = "exited" /\ ~run_interrupted /\ run_choice = "2"
               /\ kubectl_result = "ok" /\ save_errors = {})
                 => Cardinality(NewPlainFiles) = 1

C11_NoFileModified ==
    \A n \in DOMAIN files : n \in DOMAIN files' /\ files'[n] = files[n]

\* C11: in a dry run with SOPS both the plaintext file and the encrypted file
\* are written under <secret>-secret.yaml / <secret>-secret-sops.yaml or
\* their numbered variants; the plaintext file is written before encryption
\* is attempted and stays, unmodified, when sops fails; without SOPS only
\* the plaintext file is written.
C11_PlainThenEncrypted ==
    /\ [](C11_Order /\ C11_PlainStays /\ C11_BothWritten /\ C11_OnlyPlain)
    /\ [][C11_NoFileModified]_vars

\* a dry run with SOPS in a directory that already held <secret>-secret.yaml
\* wrote the numbered plaintext file and then the encrypted file
C11_Witness ==
    /\ run_pc = "exited"
    /\ sops_result = "ok"
    /\ Len(saved_files) = 2
    /\ OriginalFilename(run_secret, <<>>) \in DOMAIN files_initial
    /\ saved_files[1] = CounterFilename(OriginalFilename(run_secret, <<>>), 1)
    /\ saved_files[2] = OriginalFilename(run_secret, SopsSuffix)

\* a subprocess exited non-zero or a requested file could not be written
StepFailed ==
    \/ kubectl_result = "failed"
    \/ sops_result = "failed"
    \/ save_errors # {}

\* C12: when kubectl or sops exits non-zero, or a requested output file
\* cannot be written, the script exits 1 and reports no success; it exits 0
\* only when every requested step succeeded or the user cancelled.
C12_FailureIsTerminal ==
    run_pc = "exited"
        => /\ exit_code \in {0, 1}
           /\ (StepFailed /\ ~run_interrupted) => (exit_code = 1 /\ ~reported_success)
           /\ exit_code = 0 => (~StepFailed \/ run_interrupted \/ run_choice = "3")

----------------------------------------------------------------------------
(* create_k8s_secret.py: the interactive prompts as a state machine *)

\* at most this many rejected entries are followed in one run
MaxPromptTries == 2

\* the {58} of the AGE key pattern
AgeKeyBodyLen == 58

\* re.match(r'^[a-z0-9]([-a-z0-9]*[a-z0-9])?$', s) for a stripped s
K8sNameMatch(s) ==
    /\ s # <<>>
    /\ s[1] \in Lower \cup Digits
    /\ s[Len(s)] \in Lower \cup Digits
    /\ \A i \in 1..Len(s) : s[i] \in Lower \cup Digits \cup {"-"}

\* re.match(r'^age1[a-z0-9]{58}$', age_key) for a stripped age_key
AgeKeyMatch(s) ==
    /\ Len(s) = 4 + AgeKeyBodyLen
    /\ SubSeq(s, 1, 4) = <<"a","g","e","1">>
    /\ \A i \in 5..Len(s) : s[i] \in Lower \cup Digits

DefaultNamespace ==
    <<"d","e","f","a","u","l","t">>

\* lines 146-151: an empty or an invalid namespace becomes 'default'
NamespaceOf(v) ==
    IF v = <<>> THEN DefaultNamespace
    ELSE IF ~K8sNameMatch(v) THEN DefaultNamespace
    ELSE v

PromptNames ==
    {"name", "namespace", "sops", "age", "install", "kv", "menu"}

AgeKeyOfLen(n) ==
    <<"a","g","e","1">> \o [i \in 1..n |-> "q"]

\* what the user may enter at each prompt
TypedAt(prompt) ==
    CASE prompt = "name"      -> { <<"d","b">>, <<"D","b">>, <<"-","d">>, <<>> }
      [] prompt = "namespace" -> { <<>>, <<"n","s">>, <<" ","n","s">>, <<"N","_","s">> }
      [] prompt = "sops"      -> { <<"y">>, <<"n","o">>, <<"Y","E","S">>, <<"m">> }
      [] prompt = "age"       -> { AgeKeyOfLen(AgeKeyBodyLen), AgeKeyOfLen(AgeKeyBodyLen - 1),
                                   <<>> }
      [] prompt = "install"   -> { <<"1">>, <<"2">>, <<"3">> }
      [] prompt = "kv"        -> { <<"a",":","1">>, <<"a">>, <<>> }
      [] prompt = "menu"      -> { <<"1">>, <<"2">>, <<"3">>, <<"4">> }

\* the SOPS question asked whether or not the binary was found
AfterNamespaceAlwaysAsk(available) ==
    "sops"

\* if sops_available: the (y/n) loop, else: install_sops_prompt()
AfterNamespace(available) ==
    IF available THEN "sops" ELSE "install"

\* the condition under which run_kubectl_command calls encrypt_with_sops
EncryptsWithSops(use, key) ==
    use /\ key # <<>>

InitInput ==
    /\ SecretIdle
    /\ SaveIdle
    /\ ImageIdle
    /\ TagsIdle
    /\ PromoteIdle
    /\ RunIdle
    /\ ValidateIdle
    /\ ReportIdle
    /\ ScanIdle
    /\ PathsIdle
    /\ CompleterIdle
    /\ sops_available \in BOOLEAN
    /\ in_typed = [p \in PromptNames |-> "none"]
    /\ in_tries = 0
    /\ in_secret_name = <<>>
    /\ in_namespace = <<>>
    /\ in_use_sops = FALSE
    /\ in_age_key = <<>>
    /\ in_pairs = <<>>
    /\ in_choice = ""
    /\ in_exit = "none"
    /\ in_pc = "name"

\* an entry at `prompt`: the text is recorded; an accepted entry moves on to
\* `next`, a rejected one prints the complaint and asks the same prompt again
Entry(prompt, text, accepted, next) ==
    /\ in_pc = prompt
    /\ in_typed' = [in_typed EXCEPT ![prompt] = text]
    /\ IF accepted
       THEN in_pc' = next /\ UNCHANGED in_tries
       ELSE in_tries < MaxPromptTries /\ in_tries' = in_tries + 1 /\ UNCHANGED in_pc

\* while True: secret_name = input(...).strip() ...
AskSecretName ==
    /\ \E t \in TypedAt("name") :
         LET v == strip(t)
             ok == v # <<>> /\ K8sNameMatch(v)
         IN  /\ Entry("name", t, ok, "namespace")
             /\ in_secret_name' = IF ok THEN v ELSE in_secret_name
    /\ UNCHANGED <<sops_available, in_namespace, in_use_sops, in_age_key, in_pairs,
                   in_choice, in_exit, secretVars, saveVars, imageVars, tagsVars, promoteVars,
                   runVars, valVars, repVars, scanVars, pathVars, compVars>>

\* namespace = input(...).strip(), then check_sops_availability()
AskNamespace ==
    /\ \E t \in TypedAt("namespace") :
         /\ Entry("namespace", t, TRUE, AfterNamespace(sops_available))
         /\ in_namespace' = NamespaceOf(strip(t))
    /\ UNCHANGED <<sops_available, in_secret_name, in_use_sops, in_age_key, in_pairs,
                   in_choice, in_exit, secretVars, saveVars, imageVars, tagsVars, promoteVars,
                   runVars, valVars, repVars, scanVars, pathVars, compVars>>

\* the (y/n) loop for SOPS encryption
AskSopsChoice ==
    /\ \E t \in TypedAt("sops") :
         LET c   == lower(strip(t))
             yes == c \in { <<"y">>, <<"y","e","s">> }
             no  == c \in { <<"n">>, <<"n","o">> }
         IN  /\ Entry("sops", t, yes \/ no, IF yes THEN "age" ELSE "kv")
             /\ in_use_sops' = yes
    /\ UNCHANGED <<sops_available, in_secret_name, in_namespace, in_age_key, in_pairs,
                   in_choice, in_exit, secretVars, saveVars, imageVars, tagsVars, promoteVars,
                   runVars, valVars, repVars, scanVars, pathVars, compVars>>

\* get_age_public_key
AskAgeKey ==
    /\ \E t \in TypedAt("age") :
         LET v == strip(t)
         IN  /\ Entry("age", t, AgeKeyMatch(v), "kv")
             /\ in_age_key' = IF AgeKeyMatch(v) THEN v ELSE in_age_key
    /\ UNCHANGED <<sops_available, in_secret_name, in_namespace, in_use_sops, in_pairs,
                   in_choice, in_exit, secretVars, saveVars, imageVars, tagsVars, promoteVars,
                   runVars, valVars, repVars, scanVars, pathVars, compVars>>

\* install_sops_prompt: 1 continues without SOPS, 2 leaves through sys.exit(0)
AskInstallChoice ==
    /\ \E t \in TypedAt("install") :
         LET c == strip(t)
         IN  /\ Entry("install", t, c \in { <<"1">>, <<"2">> },
                      IF c = <<"1">> THEN "kv" ELSE "exited")
             /\ in_exit' = IF c = <<"2">> THEN 0 ELSE in_exit
    /\ UNCHANGED <<sops_available, in_secret_name, in_namespace, in_use_sops, in_age_key,
                   in_pairs, in_choice, secretVars, saveVars, imageVars, tagsVars,
                   promoteVars, runVars, valVars, repVars, scanVars, pathVars, compVars>>

\* the try/except ValueError loop around parse_key_value_input
AskKeyValuePairs ==
    /\ \E t \in TypedAt("kv") :
         LET r == parse_key_value_input(strip(t))
         IN  /\ Entry("kv", t, r.outcome = "ok", "menu")
             /\ in_pairs' = IF r.outcome = "ok" THEN r.pairs ELSE in_pairs
    /\ UNCHANGED <<sops_available, in_secret_name, in_namespace, in_use_sops, in_age_key,
                   in_choice, in_exit, secretVars, saveVars, imageVars, tagsVars, promoteVars,
                   runVars, valVars, repVars, scanVars, pathVars, compVars>>

\* the menu loop of confirm_action
AskMenuChoice ==
    /\ \E t \in TypedAt("menu") :
         LET c  == strip(t)
             ok == c \in { <<"1">>, <<"2">>, <<"3">> }
         IN  /\ Entry("menu", t, ok, "done")
             /\ in_choice' = IF ok THEN c[1] ELSE in_choice
    /\ UNCHANGED <<sops_available, in_secret_name, in_namespace, in_use_sops, in_age_key,
                   in_pairs, in_exit, secretVars, saveVars, imageVars, tagsVars, promoteVars,
                   runVars, valVars, repVars, scanVars, pathVars, compVars>>

NextInput ==
    \/ AskSecretName
    \/ AskNamespace
    \/ AskSopsChoice
    \/ AskAgeKey
    \/ AskInstallChoice
    \/ AskKeyValuePairs
    \/ AskMenuChoice

SpecInput ==
    InitInput /\ [][NextInput]_vars

----------------------------------------------------------------------------
(* Properties of the prompts *)

\* the prompts that have been answered and left behind
Passed(prompt) ==
    CASE prompt = "name"      -> in_pc # "name"
      [] prompt = "namespace" -> in_pc \notin {"name", "namespace"}
      [] prompt = "sops"      -> sops_available /\ in_pc \in {"age", "kv", "menu", "done"}
      [] prompt = "age"       -> in_use_sops /\ in_pc \in {"kv", "menu", "done"}
      [] prompt = "install"   -> ~sops_available /\ in_pc \in {"kv", "menu", "done", "exited"}
      [] prompt = "kv"        -> in_pc \in {"menu", "done"}
      [] prompt = "menu"      -> in_pc = "done"

\* the entry is well formed for its prompt (an empty namespace asks for the
\* documented default)
WellFormedEntry(prompt, v) ==
    CASE prompt = "name"      -> K8sNameMatch(v)
      [] prompt = "namespace" -> v = <<>> \/ K8sNameMatch(v)
      [] prompt = "sops"      -> lower(v) \in { <<"y">>, <<"y","e","s">>, <<"n">>, <<"n","o">> }
      [] prompt = "age"       -> AgeKeyMatch(v)
      [] prompt = "install"   -> v \in { <<"1">>, <<"2">> }
      [] prompt = "kv"        -> parse_key_value_input(v).outcome = "ok"
      [] prompt = "menu"      -> v \in { <<"1">>, <<"2">>, <<"3">> }

\* C20: no prompt of create_k8s_secret is left behind with a malformed
\* entry: the last entry at every answered prompt is well formed, and the
\* value the script goes on with is the one the user entered.
C20_MalformedEntryIsAskedAgain ==
    /\ \A p \in PromptNames :
         Passed(p) => in_typed[p] # "none" /\ WellFormedEntry(p, strip(in_typed[p]))
    /\ Passed("name") => in_secret_name = strip(in_typed["name"])
    /\ Passed("namespace")
         => in_namespace = IF strip(in_typed["namespace"]) = <<>> THEN DefaultNamespace
                           ELSE strip(in_typed["namespace"])
    /\ Passed("age") => in_age_key = strip(in_typed["age"])
    /\ Passed("menu") => <<in_choice>> = strip(in_typed["menu"])

----------------------------------------------------------------------------
(* validateConfig.py: validate_k8s_config as a state machine *)

\* the finally clause leaving the temporary file behind when the block is
\* left through sys.exit
TempKeptOnSystemExit(how, temp) ==
    IF how = "SystemExit" THEN temp ELSE "absent"

\* finally: if os.path.exists(output_file_path): os.remove(output_file_path)
TempAfterCleanup(how, temp) ==
    "absent"

\* kubeconform's return code taken for success whatever it is
KubeconformExitIgnored(result) ==
    0

\* if kubeconform_result.returncode != 0: ... sys.exit(1), else sys.exit(0)
KubeconformExit(result) ==
    IF result = "failed" THEN 1 ELSE 0

\* an uncaught KeyboardInterrupt ends the interpreter with a traceback and
\* status 1, or by SIGINT (status 130 in the shell), depending on the version
UncaughtInterruptStatus ==
    {1, 130}

RequiredTools ==
    {"kustomize", "kubeconform"}

\* what may be typed at "Do you want to attempt to install the missing tools?"
InstallAnswers ==
    { <<"y">>, <<"Y">>, <<"n">>, <<"y","e","s">>, <<>> }

\* the installation going on when one of the missing tools was installed
InstallOutcomeIfAnyInstalled(missing, answer, installs) ==
    IF missing = {} THEN "none"
    ELSE IF lower(answer) # <<"y">> THEN "declined"
    ELSE IF \E t \in missing : installs[t] THEN "installed"
    ELSE "failed"

\* check_and_install_tools after the prompt: install_option == 'y' on the
\* lowered answer, then install_tool for every missing tool, and
\* installed_successfully only when none of them returned False
InstallOutcome(missing, answer, installs) ==
    IF missing = {} THEN "none"
    ELSE IF lower(answer) # <<"y">> THEN "declined"
    ELSE IF \A t \in missing : installs[t] THEN "installed"
    ELSE "failed"

\* the run going on to kubeconform whatever run_command met
AfterBuildIgnoringFailure(result) ==
    "write"

\* run_command: check=True, and sys.exit(1) on CalledProcessError
AfterBuild(result) ==
    IF result = "failed" THEN "exited" ELSE "write"

\* the environments of a run. "unusable" is a kustomization.yaml that loads
\* but makes the summary code raise (an empty file, a top level that is no
\* mapping, a patches entry that is no mapping). val_installs is what
\* install_tool returns for each missing tool when it is called.
InitValidate ==
    /\ SecretIdle
    /\ SaveIdle
    /\ ImageIdle
    /\ TagsIdle
    /\ PromoteIdle
    /\ RunIdle
    /\ InputIdle
    /\ ReportIdle
    /\ ScanIdle
    /\ PathsIdle
    /\ CompleterIdle
    /\ val_missing \in SUBSET RequiredTools
    /\ val_tools = IF val_missing = {} THEN "present" ELSE "missing"
    /\ val_answer \in IF val_missing = {} THEN {<<>>} ELSE InstallAnswers
    /\ val_installs \in IF lower(val_answer) = <<"y">>
                        THEN [val_missing -> BOOLEAN]
                        ELSE {[t \in val_missing |-> FALSE]}
    /\ val_install = "none"
    /\ val_prompts = 0
    /\ val_install_calls = {}
    /\ val_path \in {"empty", "nodir", "dir"}
    /\ val_kust \in IF val_path = "dir"
                    THEN {"missing", "yaml_error", "unusable", "ok"} ELSE {"missing"}
    /\ val_build = "none"
    /\ val_kubeconform = "none"
    /\ val_output = "none"
    /\ val_cmds = <<>>
    /\ val_temp = "absent"
    /\ val_temp_created = FALSE
    /\ val_raised = FALSE
    /\ val_interrupted = FALSE
    /\ val_exit = "none"
    /\ val_pc = "tools"

\* check_and_install_tools: returns when nothing is missing or everything
\* was installed, sys.exit(1) when installation was declined or failed
CheckAndInstallTools ==
    /\ val_pc = "tools"
    /\ val_prompts' = IF val_missing = {} THEN val_prompts ELSE val_prompts + 1
    /\ val_install_calls' = IF val_missing # {} /\ lower(val_answer) = <<"y">>
                            THEN val_missing ELSE {}
    /\ val_install' = InstallOutcome(val_missing, val_answer, val_installs)
    /\ IF val_install' \in {"declined", "failed"}
       THEN val_exit' = 1 /\ val_pc' = "exited"
       ELSE val_pc' = "args" /\ UNCHANGED val_exit
    /\ UNCHANGED <<val_tools, val_missing, val_answer, val_installs, val_path, val_kust,
                   val_build, val_kubeconform, val_output, val_cmds,
                   val_temp, val_temp_created, val_raised, val_interrupted,
                   secretVars, saveVars, imageVars, tagsVars, promoteVars, runVars,
                   inputVars, repVars, scanVars, pathVars, compVars>>

\* the checks of the path argument, the directory and kustomization.yaml
CheckArguments ==
    /\ val_pc = "args"
    /\ IF val_path # "dir" \/ val_kust = "missing"
       THEN val_exit' = 1 /\ val_pc' = "exited"
       ELSE val_pc' = "parse" /\ UNCHANGED val_exit
    /\ UNCHANGED <<val_tools, valToolVars, val_path, val_kust, val_build, val_kubeconform,
                   val_output, val_cmds,
                   val_temp, val_temp_created, val_raised, val_interrupted,
                   secretVars, saveVars, imageVars, tagsVars, promoteVars, runVars,
                   inputVars, repVars, scanVars, pathVars, compVars>>

\* yaml.safe_load and the included-files summary inside try/except:
\* yaml.YAMLError and any other exception end in sys.exit(1)
ParseKustomization ==
    /\ val_pc = "parse"
    /\ IF val_kust \in {"yaml_error", "unusable"}
       THEN val_exit' = 1 /\ val_pc' = "exited"
       ELSE val_pc' = "mkstemp" /\ UNCHANGED val_exit
    /\ UNCHANGED <<val_tools, valToolVars, val_path, val_kust, val_build, val_kubeconform,
                   val_output, val_cmds,
                   val_temp, val_temp_created, val_raised, val_interrupted,
                   secretVars, saveVars, imageVars, tagsVars, promoteVars, runVars,
                   inputVars, repVars, scanVars, pathVars, compVars>>

\* tempfile.mkstemp(suffix=".yaml", prefix="kubeconform-output-")
CreateTempFile ==
    /\ val_pc = "mkstemp"
    /\ val_temp' = "present"
    /\ val_temp_created' = TRUE
    /\ val_pc' = "build"
    /\ UNCHANGED <<val_tools, valToolVars, val_path, val_kust, val_build, val_kubeconform,
                   val_output, val_cmds,
                   val_raised, val_interrupted, val_exit,
                   secretVars, saveVars, imageVars, tagsVars, promoteVars, runVars,
                   inputVars, repVars, scanVars, pathVars, compVars>>

\* run_command("kustomize build ..."): a non-zero exit is sys.exit(1) inside
\* run_command, which leaves the try block through its finally clause
BuildManifests ==
    /\ val_pc = "build"
    /\ val_cmds' = Append(val_cmds, [tool |-> "kustomize", arg |-> "kustomize_path"])
    /\ \E r \in {"ok", "failed"} :
         /\ val_build' = r
         /\ IF AfterBuild(r) = "exited"
            THEN /\ val_temp' = TempAfterCleanup("SystemExit", val_temp)
                 /\ val_exit' = 1
                 /\ val_pc' = "exited"
            ELSE /\ val_pc' = AfterBuild(r)
                 /\ UNCHANGED <<val_temp, val_exit>>
    /\ UNCHANGED <<val_tools, valToolVars, val_path, val_kust, val_kubeconform,
                   val_output,
                   val_temp_created, val_raised, val_interrupted,
                   secretVars, saveVars, imageVars, tagsVars, promoteVars, runVars,
                   inputVars, repVars, scanVars, pathVars, compVars>>

\* with open(output_file_path, "w") as f: f.write(stdout_kustomize)
WriteBuildOutput ==
    /\ val_pc = "write"
    /\ val_output' = "output_file_path"
    /\ val_pc' = "kubeconform"
    /\ UNCHANGED <<val_tools, valToolVars, val_path, val_kust, val_build, val_kubeconform,
                   val_cmds, val_temp,
                   val_temp_created, val_raised, val_interrupted, val_exit,
                   secretVars, saveVars, imageVars, tagsVars, promoteVars, runVars,
                   inputVars, repVars, scanVars, pathVars, compVars>>

\* the resource map is built and kubeconform run on output_file_path; a
\* non-zero return code prints the report and calls sys.exit(1) inside the
\* try block; otherwise the block ends, the file is removed and sys.exit(0)
RunKubeconform ==
    /\ val_pc = "kubeconform"
    /\ val_cmds' = Append(val_cmds, [tool |-> "kubeconform", arg |-> "output_file_path"])
    /\ \E r \in {"ok", "failed"} :
         /\ val_kubeconform' = r
         /\ val_temp' = TempAfterCleanup(IF r = "failed" THEN "SystemExit" ELSE "end",
                                         val_temp)
         /\ val_exit' = KubeconformExit(r)
    /\ val_pc' = "exited"
    /\ UNCHANGED <<val_tools, valToolVars, val_path, val_kust, val_build, val_output,
                   val_temp_created, val_raised, val_interrupted,
                   secretVars, saveVars, imageVars, tagsVars, promoteVars, runVars,
                   inputVars, repVars, scanVars, pathVars, compVars>>

\* any other exception raised inside the try block: the finally clause runs
\* and the uncaught exception ends the interpreter with status 1
RaiseInTryBlock ==
    /\ val_pc \in {"build", "write", "kubeconform"}
    /\ val_raised' = TRUE
    /\ val_temp' = TempAfterCleanup("Exception", val_temp)
    /\ val_exit' = 1
    /\ val_pc' = "exited"
    /\ UNCHANGED <<val_tools, valToolVars, val_path, val_kust, val_build, val_kubeconform,
                   val_output, val_cmds,
                   val_temp_created, val_interrupted,
                   secretVars, saveVars, imageVars, tagsVars, promoteVars, runVars,
                   inputVars, repVars, scanVars, pathVars, compVars>>

\* KeyboardInterrupt: no handler in the script; a pending finally runs
InterruptValidate ==
    /\ val_pc \in {"tools", "args", "parse", "mkstemp", "build", "write", "kubeconform"}
    /\ val_interrupted' = TRUE
    /\ val_temp' = IF val_pc \in {"build", "write", "kubeconform"}
                   THEN TempAfterCleanup("KeyboardInterrupt", val_temp) ELSE val_temp
    /\ val_exit' \in UncaughtInterruptStatus
    /\ val_pc' = "exited"
    /\ UNCHANGED <<val_tools, valToolVars, val_path, val_kust, val_build, val_kubeconform,
                   val_output, val_cmds,
                   val_temp_created, val_raised,
                   secretVars, saveVars, imageVars, tagsVars, promoteVars, runVars,
                   inputVars, repVars, scanVars, pathVars, compVars>>

NextValidate ==
    \/ CheckAndInstallTools
    \/ CheckArguments
    \/ ParseKustomization
    \/ CreateTempFile
    \/ BuildManifests
    \/ WriteBuildOutput
    \/ RunKubeconform
    \/ RaiseInTryBlock
    \/ InterruptValidate

SpecValidate ==
    InitValidate /\ [][NextValidate]_vars

----------------------------------------------------------------------------
(* Properties of the validateConfig run and of cancellation *)

\* C13: validate_k8s_config exits 0 exactly when the tool check passed, the
\* target is a directory with a kustomization.yaml that parses, kustomize
\* build exited 0 and kubeconform exited 0; every listed failure exits 1.
C13_ExitZeroIffAllStepsPassed ==
    (val_pc = "exited" /\ ~val_interrupted)
        => /\ val_exit \in {0, 1}
           /\ val_exit = 0 <=> /\ val_install \notin {"declined", "failed"}
                               /\ val_path = "dir"
                               /\ val_kust \in {"ok", "unusable"}
                               /\ val_build = "ok"
                               /\ val_kubeconform = "ok"
           /\ (\/ val_path \in {"empty", "nodir"}
               \/ val_kust \in {"missing", "yaml_error"}
               \/ val_build = "failed"
               \/ val_kubeconform = "failed"
               \/ val_install \in {"declined", "failed"}) => val_exit = 1

\* missing tools were installed and the whole validation passed
C13_Witness ==
    /\ val_pc = "exited"
    /\ val_install = "installed"
    /\ val_kubeconform = "ok"
    /\ val_exit = 0

\* C14: a KeyboardInterrupt at any point of a run ends the script with exit
\* code 0 (create_k8s_secret run and validateConfig run).
C14_InterruptExitsZero ==
    /\ (run_pc = "exited" /\ run_interrupted) => exit_code = 0
    /\ (val_pc = "exited" /\ val_interrupted) => val_exit = 0

----------------------------------------------------------------------------
(* validateConfig.py: the kubeconform error table *)

\* at most this many kubeconform output lines
MaxReportLines == 2

\* the [:50] of the fallback resource column
FallbackResourceLen == 50

Separator ==
    <<" ","-"," ">>

NoStderrText ==
    <<"N","o"," ","s","t","d","e","r","r">>

ParseErrorText ==
    <<"P","a","r","s","e"," ","E","r","r","o","r">>

UnknownText ==
    <<"U","n","k","n","o","w","n">>

UnknownSourceText ==
    <<"U","n","k","n","o","w","n"," ","s","o","u","r","c","e">>

SourceNotFoundText ==
    <<"S","o","u","r","c","e"," ","f","i","l","e"," ","n","o","t"," ","f","o","u","n","d">>

SeeFullDetailsText ==
    <<"S","e","e"," ","f","u","l","l"," ","e","r","r","o","r"," ","d","e","t","a","i","l","s">>

Ellipsis ==
    <<".",".",".">>

\* the positions at which t occurs in s
Occurrences(s, t) ==
    { p \in 1..(Len(s) - Len(t) + 1) : SubSeq(s, p, p + Len(t) - 1) = t }

Min(S) ==
    CHOOSE x \in S : \A y \in S : x <= y

Max(S) ==
    CHOOSE x \in S : \A y \in S : x >= y

\* the split taken at the last " - " of the line
LastSeparatorIndex(line) ==
    Max(Occurrences(line, Separator))

\* line.split(" - ", 1): the position of the first " - "
SeparatorIndex(line) ==
    Min(Occurrences(line, Separator))

\* re.match(r"^(\S+)\s+(\S+)\s+(.+)$", r) for a stripped r.  \S+ and \s+ are
\* greedy and each is followed by a character of the other class, so the
\* groups are the first token, the second token and everything from the third
ResourceMatch(r) ==
    LET e1 == RunEnd(r, 1, FALSE, FALSE)
        b2 == RunEnd(r, e1, TRUE, FALSE)
        e2 == RunEnd(r, b2, FALSE, FALSE)
        b3 == RunEnd(r, e2, TRUE, FALSE)
    IN  IF e1 > 1 /\ b2 > e1 /\ e2 > b2 /\ b3 > e2 /\ b3 <= Len(r)
        THEN [matched |-> TRUE, kind |-> SubSeq(r, 1, e1 - 1),
              name |-> SubSeq(r, b2, e2 - 1), details |-> SubSeq(r, b3, Len(r))]
        ELSE [matched |-> FALSE]

\* resource_to_file_map.get(failed_resource, "Source file not found")
LocationOf(map, key) ==
    IF key \in DOMAIN map THEN map[key] ELSE SourceNotFoundText

\* rest.strip()[:50] + "..." if len(rest.strip()) > 50 else rest.strip()
FallbackResource(r) ==
    IF Len(r) > FallbackResourceLen
    THEN SubSeq(r, 1, FallbackResourceLen) \o Ellipsis
    ELSE r

\* if line.strip() and not line.startswith("No stderr")
LineIsShown(line) ==
    strip(line) # <<>> /\ ~StartsWithAt(line, 1, NoStderrText)

\* the three columns printed for one line that is shown
TableEntry(line, map) ==
    IF Occurrences(line, Separator) # {}
    THEN LET at   == SeparatorIndex(line)
             rest == SubSeq(line, at + Len(Separator), Len(line))
             m    == ResourceMatch(strip(rest))
         IN  IF m.matched
             THEN [resource |-> m.kind \o <<"/">> \o m.name,
                   location |-> LocationOf(map, m.kind \o <<"/">> \o m.name),
                   info     |-> m.details]
             ELSE [resource |-> FallbackResource(strip(rest)),
                   location |-> UnknownSourceText,
                   info     |-> SeeFullDetailsText]
    ELSE [resource |-> ParseErrorText,
          location |-> UnknownText,
          info     |-> strip(line)]

\* the printable ASCII characters in code point order (the backslash and the
\* backquote, which no line of the model holds, left out)
AsciiChars ==
    << " ", "!", "\"", "#", "$", "%", "&", "'", "(", ")", "*", "+", ",", "-", ".", "/",
       "0", "1", "2", "3", "4", "5", "6", "7", "8", "9", ":", ";", "<", "=", ">", "?",
       "@", "A", "B", "C", "D", "E", "F", "G", "H", "I", "J", "K", "L", "M", "N", "O",
       "P", "Q", "R", "S", "T", "U", "V", "W", "X", "Y", "Z", "[", "]", "^", "_",
       "a", "b", "c", "d", "e", "f", "g", "h", "i", "j", "k", "l", "m", "n", "o",
       "p", "q", "r", "s", "t", "u", "v", "w", "x", "y", "z", "{", "|", "}", "~" >>

\* the rank of a character in code point order
Ord(c) ==
    CHOOSE i \in 1..Len(AsciiChars) : AsciiChars[i] = c

\* a < b for Python strings: by code point, a proper prefix first
RECURSIVE StrLess(_, _)
StrLess(a, b) ==
    IF b = <<>> THEN FALSE
    ELSE IF a = <<>> THEN TRUE
    ELSE IF Head(a) = Head(b) THEN StrLess(Tail(a), Tail(b))
    ELSE Ord(Head(a)) < Ord(Head(b))

\* the [:57] of the error excerpt column
SummaryExcerptLen == 57

UnnamedText ==
    <<"/","(","u","n","n","a","m","e","d",")">>

\* the class [a-zA-Z0-9\-\.]
IsKindNameChar(c) ==
    c \in Lower \cup Upper \cup Digits \cup {"-", "."}

\* the end (exclusive) of the longest run of [a-zA-Z0-9\-\.] from p
RECURSIVE KindNameRunEnd(_, _)
KindNameRunEnd(s, p) ==
    IF p > Len(s) \/ ~IsKindNameChar(s[p]) THEN p
    ELSE KindNameRunEnd(s, p + 1)

\* \s+-\s+(.+)$ tried at position p: whitespace, a dash, whitespace and at
\* least one more character.  The last \s+ gives characters back to (.+)
\* when nothing else is left, so group(...).strip() is the stripped rest.
MessageTailAt(s, p) ==
    LET a == RunEnd(s, p, TRUE, FALSE)
    IN  IF /\ a > p
           /\ a + 2 <= Len(s)
           /\ s[a] = "-"
           /\ IsSpace(s[a + 1])
        THEN [matched |-> TRUE, msg |-> strip(SubSeq(s, a + 1, Len(s)))]
        ELSE [matched |-> FALSE]

\* \s+-\s+([a-zA-Z0-9\-\.]+)/([a-zA-Z0-9\-\.]+)\s+-\s+(.+)$ tried at
\* position q.  Each class is followed by a character it excludes, so the
\* longest runs are the only way to match.
KindNameAt(s, q) ==
    LET a == RunEnd(s, q, TRUE, FALSE)
        b == RunEnd(s, a + 1, TRUE, FALSE)
        k == KindNameRunEnd(s, b)
        n == KindNameRunEnd(s, k + 1)
    IN  IF /\ a > q /\ a <= Len(s) /\ s[a] = "-"
           /\ b > a + 1
           /\ k > b /\ k <= Len(s) /\ s[k] = "/"
           /\ n > k + 1
           /\ MessageTailAt(s, n).matched
        THEN [matched |-> TRUE,
              key |-> SubSeq(s, b, k - 1) \o <<"/">> \o SubSeq(s, k + 1, n - 1),
              msg |-> MessageTailAt(s, n).msg]
        ELSE [matched |-> FALSE]

\* \s+-\s+\((.+?)\)\s+-\s+(.+)$ tried at position q: the lazy group ends
\* at the first closing parenthesis after which the rest matches
KindOnlyAt(s, q) ==
    LET a == RunEnd(s, q, TRUE, FALSE)
        b == RunEnd(s, a + 1, TRUE, FALSE)
        closing == { k \in (b + 2)..Len(s) : s[k] = ")" /\ MessageTailAt(s, k + 1).matched }
    IN  IF /\ a > q /\ a <= Len(s) /\ s[a] = "-"
           /\ b > a + 1 /\ b <= Len(s) /\ s[b] = "("
           /\ closing # {}
        THEN [matched |-> TRUE,
              key |-> SubSeq(s, b + 1, Min(closing) - 1) \o UnnamedText,
              msg |-> MessageTailAt(s, Min(closing) + 1).msg]
        ELSE [matched |-> FALSE]

\* regex_kind_name.match(line): "- ", the lazy (.+?) of at least one
\* character, and the rest at the first position where it matches
regex_kind_name(line) ==
    LET at == { q \in 4..Len(line) : KindNameAt(line, q).matched }
    IN  IF StartsWithAt(line, 1, <<"-", " ">>) /\ at # {}
        THEN KindNameAt(line, Min(at))
        ELSE [matched |-> FALSE]

\* regex_kind_only.match(line)
regex_kind_only(line) ==
    LET at == { q \in 4..Len(line) : KindOnlyAt(line, q).matched }
    IN  IF StartsWithAt(line, 1, <<"-", " ">>) /\ at # {}
        THEN KindOnlyAt(line, Min(at))
        ELSE [matched |-> FALSE]

\* the for loop over error_lines: one (res_key, error_msg_excerpt) for every
\* line one of the two patterns matches
RECURSIVE FailingResourceDetails(_, _)
FailingResourceDetails(lines, i) ==
    IF i > Len(lines) THEN <<>>
    ELSE LET m1 == regex_kind_name(lines[i])
             m2 == regex_kind_only(lines[i])
         IN  (IF m1.matched THEN << [resource |-> m1.key, excerpt |-> m1.msg] >>
              ELSE IF m2.matched THEN << [resource |-> m2.key, excerpt |-> m2.msg] >>
              ELSE <<>>)
             \o FailingResourceDetails(lines, i + 1)

\* sorted(..., key=lambda x: x[0]): a stable sort by res_key, built by
\* inserting each row behind the rows whose key is not greater
RECURSIVE SortedByKey(_)
SortedByKey(rows) ==
    IF rows = <<>> THEN <<>>
    ELSE LET init == SortedByKey(SubSeq(rows, 1, Len(rows) - 1))
             row  == rows[Len(rows)]
             n    == Cardinality({ j \in 1..Len(init) : ~StrLess(row.resource, init[j].resource) })
         IN  SubSeq(init, 1, n) \o <<row>> \o SubSeq(init, n + 1, Len(init))

\* error_msg_excerpt[:57] + '...' if len(error_msg_excerpt) > 57
DisplayedExcerpt(msg) ==
    IF Len(msg) > SummaryExcerptLen
    THEN SubSeq(msg, 1, SummaryExcerptLen) \o Ellipsis
    ELSE msg

\* the rows printed under "Summary of Failing Resources"
SummaryRows(lines) ==
    LET sorted == SortedByKey(FailingResourceDetails(lines, 1))
    IN  [i \in 1..Len(sorted) |->
           [resource |-> sorted[i].resource, excerpt |-> DisplayedExcerpt(sorted[i].excerpt)]]

TmpFile ==
    <<"/","t","m","p","/","x",".","y","a","m","l">>

KindDeployment ==
    <<"D","e","p","l","o","y","m","e","n","t">>

KindService ==
    <<"S","e","r","v","i","c","e">>

NameMyApp ==
    <<"m","y","-","a","p","p">>

NameDb ==
    <<"d","b">>

\* a token longer than the fallback column
LongToken ==
    [i \in 1..(FallbackResourceLen + 1) |-> "x"]

\* what kubeconform may print on one line: a resource line
\* <file> - <Kind> <name> <message>, a line in the form of the summary
\* patterns (- <file> - <Kind>/<name> - <message> or
\* - <file> - (<Kind>) - <message>), or other text
ReportLineChoices ==
    [form : {"resource"}, file : {TmpFile}, kind : {KindDeployment, KindService},
     gap : {<<" ">>, <<" "," ">>}, name : {NameMyApp, NameDb},
     message : { <<"i","s"," ","i","n","v","a","l","i","d",":"," ","x">>, <<"b","a","d"," ","-"," ","w","o","r","s","e">> }]
    \cup [form : {"dashed"}, file : {TmpFile}, kind : {KindDeployment, KindService},
          gap : {<<>>}, name : {NameDb}, message : {<<"b","a","d">>, LongToken \o LongToken}]
    \cup [form : {"unnamed"}, file : {TmpFile}, kind : {KindDeployment}, gap : {<<>>},
          name : {<<>>}, message : {<<"b","a","d">>}]
    \cup [form : {"text"}, file : {<<>>}, kind : {<<>>}, gap : {<<>>}, name : {<<>>},
          message : { <<"e","r","r","o","r",":"," ","n","o"," ","s","c","h","e","m","a">>,
                      <<" ","i","n","d","e","n","t","e","d">>,
                      <<"N","o"," ","s","t","d","e","r","r"," ","o","u","t","p","u","t">>,
                      TmpFile \o Separator \o KindDeployment,
                      TmpFile \o Separator \o LongToken }]

RenderReportLine(l) ==
    CASE l.form = "resource"
           -> l.file \o Separator \o l.kind \o l.gap \o l.name \o <<" ">> \o l.message
      [] l.form = "dashed"
           -> <<"-", " ">> \o l.file \o Separator \o l.kind \o <<"/">> \o l.name
              \o Separator \o l.message
      [] l.form = "unnamed"
           -> <<"-", " ">> \o l.file \o Separator \o <<"(">> \o l.kind \o <<")">>
              \o Separator \o l.message
      [] OTHER -> l.message

AppYamlPath ==
    <<".","/","b","a","s","e","/","a","p","p",".","y","a","m","l">>

ReportMapChoices ==
    { <<>>, [k \in {KindDeployment \o <<"/">> \o NameMyApp} |-> AppYamlPath] }

InitReport ==
    /\ SecretIdle
    /\ SaveIdle
    /\ ImageIdle
    /\ TagsIdle
    /\ PromoteIdle
    /\ RunIdle
    /\ InputIdle
    /\ ValidateIdle
    /\ ScanIdle
    /\ PathsIdle
    /\ CompleterIdle
    /\ rep_lines \in UNION { [1..n -> ReportLineChoices] : n \in 1..MaxReportLines }
    /\ rep_map \in ReportMapChoices
    /\ rep_idx = 1
    /\ rep_table = <<>>
    /\ rep_summary = NoSummary
    /\ rep_pc = "table"

\* one turn of  for line in all_error_lines  on a line that is printed
PrintTableEntry ==
    /\ rep_pc = "table"
    /\ LineIsShown(RenderReportLine(rep_lines[rep_idx]))
    /\ rep_table' = Append(rep_table,
                           [line |-> rep_idx]
                           @@ TableEntry(RenderReportLine(rep_lines[rep_idx]), rep_map))
    /\ rep_idx' = rep_idx + 1
    /\ rep_pc' = IF rep_idx = Len(rep_lines) THEN "summary" ELSE "table"
    /\ UNCHANGED <<rep_lines, rep_map, rep_summary, secretVars, saveVars, imageVars,
                   tagsVars, promoteVars, runVars, inputVars, valVars, scanVars, pathVars, compVars>>

\* one turn of the loop on a line the condition filters out
SkipTableLine ==
    /\ rep_pc = "table"
    /\ ~LineIsShown(RenderReportLine(rep_lines[rep_idx]))
    /\ rep_idx' = rep_idx + 1
    /\ rep_pc' = IF rep_idx = Len(rep_lines) THEN "summary" ELSE "table"
    /\ UNCHANGED <<rep_lines, rep_map, rep_table, rep_summary, secretVars, saveVars,
                   imageVars, tagsVars, promoteVars, runVars, inputVars, valVars, scanVars,
                   pathVars, compVars>>

\* the section "Summary of Failing Resources": error_lines are taken to be
\* the lines of the table (stdout ending in a newline), matched against the
\* two patterns, sorted and printed, or the fallback row
PrintSummary ==
    /\ rep_pc = "summary"
    /\ LET rows == SummaryRows([i \in 1..Len(rep_lines) |-> RenderReportLine(rep_lines[i])])
       IN  rep_summary' = [printed |-> TRUE, rows |-> rows, fallback |-> rows = <<>>]
    /\ rep_pc' = "done"
    /\ UNCHANGED <<rep_lines, rep_map, rep_idx, rep_table, secretVars, saveVars, imageVars,
                   tagsVars, promoteVars, runVars, inputVars, valVars, scanVars, pathVars, compVars>>

NextReport ==
    \/ PrintTableEntry
    \/ SkipTableLine
    \/ PrintSummary

SpecReport ==
    InitReport /\ [][NextReport]_vars

----------------------------------------------------------------------------
(* Properties of the kubeconform error table *)

\* the table entries printed for line i
EntriesOf(i) ==
    { k \in 1..Len(rep_table) : rep_table[k].line = i }

\* C15: every line <file> - <Kind> <name> <message> (the first " - " of the
\* line being the one after the file) gives the resource key Kind/name with
\* the message as additional info.
C15_ResourceLineParsed ==
    \A i \in 1..Len(rep_lines) :
        (i < rep_idx /\ rep_lines[i].form = "resource")
            => \E k \in EntriesOf(i) :
                 /\ rep_table[k].resource
                      = rep_lines[i].kind \o <<"/">> \o rep_lines[i].name
                 /\ rep_table[k].info = rep_lines[i].message

\* a resource line whose message itself holds " - " was printed
C15_Witness ==
    /\ rep_pc = "done"
    /\ \E k \in 1..Len(rep_table) :
         /\ rep_lines[rep_table[k].line].form = "resource"
         /\ Occurrences(rep_lines[rep_table[k].line].message, Separator) # {}
         /\ rep_table[k].resource = KindDeployment \o <<"/">> \o NameMyApp
         /\ rep_table[k].location = AppYamlPath

\* C16: every non-empty line gives exactly one table entry; a line without
\* " - " is shown as Parse Error / Unknown with the line as info; a line with
\* " - " whose remainder is not <Kind> <name> <message> is shown with the
\* remainder, cut to 50 characters plus "...", and location Unknown source.
C16_EveryLineShownOnce ==
    \A i \in 1..Len(rep_lines) :
        LET line == RenderReportLine(rep_lines[i])
        IN  (i < rep_idx /\ strip(line) # <<>>)
                => /\ Cardinality(EntriesOf(i)) = 1
                   /\ \A k \in EntriesOf(i) :
                        /\ Occurrences(line, Separator) = {}
                             => /\ rep_table[k].resource = ParseErrorText
                                /\ rep_table[k].location = UnknownText
                                /\ rep_table[k].info = strip(line)
                        /\ rep_lines[i].message = TmpFile \o Separator \o KindDeployment
                             => /\ rep_table[k].resource = KindDeployment
                                /\ rep_table[k].location = UnknownSourceText
                        /\ rep_lines[i].message = TmpFile \o Separator \o LongToken
                             => /\ rep_table[k].resource
                                     = [j \in 1..50 |-> "x"] \o <<".",".",".">>
                                /\ rep_table[k].location = UnknownSourceText

----------------------------------------------------------------------------
(* validateConfig.py: the resource-to-file map                              *)

\* most documents in the multi-document file of the scanned tree
MaxDocs ==
    2

\* a parsed YAML document: shape is what safe_load_all yields ("dict", "list",
\* "null") or "error" where the parser raises; metadata is "dict", "null"
\* (the key is there with no value) or "absent"
DocResource(kind, name) ==
    [shape |-> "dict", kind |-> kind, metadata |-> "dict", name |-> name]

DocNoKind ==
    [shape |-> "dict", kind |-> <<>>, metadata |-> "dict", name |-> NameDb]

DocNoMetadata ==
    [shape |-> "dict", kind |-> KindService, metadata |-> "absent", name |-> <<>>]

DocNullMetadata ==
    [shape |-> "dict", kind |-> KindDeployment, metadata |-> "null", name |-> <<>>]

DocList ==
    [shape |-> "list", kind |-> <<>>, metadata |-> "absent", name |-> <<>>]

DocSyntaxError ==
    [shape |-> "error", kind |-> <<>>, metadata |-> "absent", name |-> <<>>]

DocChoices ==
    { DocResource(KindDeployment, NameMyApp), DocResource(KindService, NameDb),
      DocNoKind, DocNoMetadata, DocNullMetadata, DocList, DocSyntaxError }

\* f"{kind}/{name}"
ResourceKey(kind, name) ==
    kind \o <<"/">> \o name

\* str.endswith
EndsWith(s, suffix) ==
    /\ Len(s) >= Len(suffix)
    /\ SubSeq(s, Len(s) - Len(suffix) + 1, Len(s)) = suffix

KustomizationYaml ==
    <<"k","u","s","t","o","m","i","z","a","t","i","o","n",".","y","a","m","l">>

\* item.endswith(('.yaml', '.yml')) and item != 'kustomization.yaml'
IsScanned(item) ==
    /\ \/ EndsWith(item, <<".","y","a","m","l">>)
       \/ EndsWith(item, <<".","y","m","l">>)
    /\ item # KustomizationYaml

\* f"./{os.path.join(relative_base_path, item)}"
PathOf(relative_base_path, item) ==
    <<".","/">> \o (IF relative_base_path = <<>>
                    THEN item
                    ELSE relative_base_path \o <<"/">> \o item)

\* resource_to_file_map[resource_key] = ...
MapSet(map, key, value) ==
    [k \in (DOMAIN map) \cup {key} |-> IF k = key THEN value ELSE map[k]]

\* the body of  for doc in yaml.safe_load_all(f)  from document i on, inside
\* try ... except Exception: pass.  The documents are parsed one at a time, so
\* a parser error leaves the entries of the earlier documents in the map;
\* metadata.get on a metadata that is None raises AttributeError, which the
\* same handler swallows, and the rest of the file is not read.
RECURSIVE ScanDocs(_, _, _, _)
ScanDocs(map, docs, i, path) ==
    IF i > Len(docs) THEN map
    ELSE LET doc == docs[i]
         IN  IF doc.shape = "error" THEN map
             ELSE IF doc.shape # "dict" THEN ScanDocs(map, docs, i + 1, path)
             ELSE IF doc.metadata = "null" THEN map
             ELSE LET kind == doc.kind
                      name == IF doc.metadata = "dict" THEN doc.name ELSE <<>>
                  IN  IF kind # <<>> /\ name # <<>>
                      THEN ScanDocs(MapSet(map, ResourceKey(kind, name), path),
                                    docs, i + 1, path)
                      ELSE ScanDocs(map, docs, i + 1, path)

BaseDirName ==
    <<"b","a","s","e">>

ScannedFile(item, docs) ==
    [dir |-> BaseDirName, item |-> item, docs |-> docs]

MultiDocFiles ==
    { ScannedFile(<<"a",".","y","a","m","l">>, docs) :
        docs \in UNION { [1..n -> DocChoices] : n \in 0..MaxDocs } }

OtherFiles ==
    { ScannedFile(KustomizationYaml, <<DocResource(KindDeployment, NameMyApp)>>),
      ScannedFile(<<"b",".","y","m","l">>, <<DocResource(KindService, NameDb)>>),
      ScannedFile(<<"n","o","t","e","s",".","t","x","t">>,
                  <<DocResource(KindService, NameDb)>>) }

FailedResourceChoices ==
    { ResourceKey(KindDeployment, NameMyApp), ResourceKey(KindService, NameDb),
      ResourceKey(KindService, NameMyApp) }

\* the state when the scan of the directory tree begins: the files of the
\* walk in os.listdir order, the map empty
InitScan ==
    /\ SecretIdle
    /\ SaveIdle
    /\ ImageIdle
    /\ TagsIdle
    /\ PromoteIdle
    /\ RunIdle
    /\ InputIdle
    /\ ValidateIdle
    /\ ReportIdle
    /\ PathsIdle
    /\ CompleterIdle
    /\ \E a \in MultiDocFiles :
          \/ scan_files = <<a>>
          \/ \E b \in OtherFiles : scan_files \in { <<a, b>>, <<b, a>> }
    /\ resource_to_file_map = <<>>
    /\ scan_idx = 1
    /\ failed_resource = <<>>
    /\ file_location = <<>>
    /\ scan_pc = "scan"

\* one turn of  for item in os.listdir(...)  on a .yaml/.yml file
ScanYamlFile ==
    /\ scan_pc = "scan"
    /\ IsScanned(scan_files[scan_idx].item)
    /\ resource_to_file_map' =
           ScanDocs(resource_to_file_map, scan_files[scan_idx].docs, 1,
                    PathOf(scan_files[scan_idx].dir, scan_files[scan_idx].item))
    /\ scan_idx' = scan_idx + 1
    /\ scan_pc' = IF scan_idx = Len(scan_files) THEN "lookup" ELSE "scan"
    /\ UNCHANGED <<scan_files, failed_resource, file_location, secretVars,
                   saveVars, imageVars, tagsVars, promoteVars, runVars,
                   inputVars, valVars, repVars, pathVars, compVars>>

\* one turn of the loop on kustomization.yaml or a file of another type
SkipOtherFile ==
    /\ scan_pc = "scan"
    /\ ~IsScanned(scan_files[scan_idx].item)
    /\ scan_idx' = scan_idx + 1
    /\ scan_pc' = IF scan_idx = Len(scan_files) THEN "lookup" ELSE "scan"
    /\ UNCHANGED <<scan_files, resource_to_file_map, failed_resource,
                   file_location, secretVars, saveVars, imageVars, tagsVars,
                   promoteVars, runVars, inputVars, valVars, repVars, pathVars, compVars>>

\* file_location = resource_to_file_map.get(failed_resource, ...) for a
\* resource kubeconform reported
LookupFailedResource ==
    /\ scan_pc = "lookup"
    /\ \E key \in FailedResourceChoices :
          /\ failed_resource' = key
          /\ file_location' = LocationOf(resource_to_file_map, key)
    /\ scan_pc' = "done"
    /\ UNCHANGED <<scan_files, resource_to_file_map, scan_idx, secretVars,
                   saveVars, imageVars, tagsVars, promoteVars, runVars,
                   inputVars, valVars, repVars, pathVars, compVars>>

NextScan ==
    \/ ScanYamlFile
    \/ SkipOtherFile
    \/ LookupFailedResource

SpecScan ==
    InitScan /\ [][NextScan]_vars

\* a document with a non-empty kind and metadata.name
HasKindAndName(doc) ==
    /\ doc.shape = "dict"
    /\ doc.kind # <<>>
    /\ doc.metadata = "dict"
    /\ doc.name # <<>>

\* a file the YAML parser reads to the end
Parseable(file) ==
    \A j \in 1..Len(file.docs) : file.docs[j].shape # "error"

\* file i is a scanned file that holds a document of this key
HoldsResource(i, key) ==
    /\ IsScanned(scan_files[i].item)
    /\ \E j \in 1..Len(scan_files[i].docs) :
          /\ HasKindAndName(scan_files[i].docs[j])
          /\ ResourceKey(scan_files[i].docs[j].kind, scan_files[i].docs[j].name) = key

\* C17: once the scan is over, every document with a non-empty kind and
\* metadata.name in a parseable .yaml/.yml file other than kustomization.yaml
\* has its Kind/Name key in the map, with the path of a file that holds such a
\* document; a failed resource whose key is in the map is reported with that
\* path and one whose key is absent as "Source file not found".
C17_EveryResourceIsMapped ==
    /\ scan_pc \in {"lookup", "done"}
         => \A i \in 1..Len(scan_files) :
              \A j \in 1..Len(scan_files[i].docs) :
                 LET doc == scan_files[i].docs[j]
                     key == ResourceKey(doc.kind, doc.name)
                 IN  /\ IsScanned(scan_files[i].item)
                     /\ Parseable(scan_files[i])
                     /\ HasKindAndName(doc)
                     => /\ key \in DOMAIN resource_to_file_map
                        /\ \E i2 \in 1..Len(scan_files) :
                              /\ HoldsResource(i2, key)
                              /\ resource_to_file_map[key]
                                   = PathOf(scan_files[i2].dir, scan_files[i2].item)
    /\ scan_pc = "done"
         => file_location = IF failed_resource \in DOMAIN resource_to_file_map
                            THEN resource_to_file_map[failed_resource]
                            ELSE SourceNotFoundText

----------------------------------------------------------------------------
(* Properties of the tool check and of the command order in validateConfig *)

\* the commands run so far that call this tool
CommandsOf(tool) ==
    { i \in 1..Len(val_cmds) : val_cmds[i].tool = tool }

\* every missing tool was installed after the user agreed to it
AllMissingInstalled ==
    /\ lower(val_answer) = <<"y">>
    /\ \A t \in val_missing : val_installs[t]

\* C21: when kustomize or kubeconform is missing the user is asked once
\* whether to install; when the answer is not y (compared in lower case) or
\* installing one of the missing tools fails, the run exits with code 1 and
\* neither kustomize build nor kubeconform is ever invoked; validation goes
\* on only when no tool was missing or every missing tool was installed.
C21_MissingToolsStopTheRun ==
    /\ val_prompts <= 1
    /\ (val_pc \notin {"idle", "tools"} /\ val_install # "none")
         => val_prompts = 1 /\ val_missing # {}
    /\ (val_pc \notin {"idle", "tools"} /\ val_install = "none" /\ val_missing # {})
         => val_interrupted /\ val_cmds = <<>>
    /\ (val_missing # {} /\ ~AllMissingInstalled)
         => /\ val_cmds = <<>>
            /\ val_pc \in {"tools", "exited"}
            /\ (val_pc = "exited" /\ ~val_interrupted) => val_exit = 1
    /\ (val_pc \notin {"idle", "tools", "exited"} \/ val_cmds # <<>>)
         => val_missing = {} \/ AllMissingInstalled
    /\ val_install_calls # {} => lower(val_answer) = <<"y">>

\* both tools were missing, the user agreed, one installation failed after
\* both were tried, and the run ended with 1 before any command
C21_Witness ==
    /\ val_missing = RequiredTools
    /\ val_answer = <<"Y">>
    /\ val_installs["kustomize"] /\ ~val_installs["kubeconform"]
    /\ val_install_calls = RequiredTools
    /\ val_pc = "exited"
    /\ val_exit = 1
    /\ val_cmds = <<>>

\* C22: kubeconform is invoked only after kustomize build exited 0 and its
\* output was written to the temporary file, and on exactly that file; when
\* the build fails the run ends with exit code 1 and kubeconform is never
\* invoked; neither command is invoked more than once in a run.
C22_BuildThenKubeconform ==
    /\ Cardinality(CommandsOf("kustomize")) <= 1
    /\ Cardinality(CommandsOf("kubeconform")) <= 1
    /\ \A i \in CommandsOf("kubeconform") :
          /\ \E j \in CommandsOf("kustomize") : j < i
          /\ val_build = "ok"
          /\ val_output # "none"
          /\ val_cmds[i].arg = val_output
          /\ val_temp_created
    /\ val_build = "failed"
         => /\ val_pc = "exited"
            /\ val_exit = 1
            /\ CommandsOf("kubeconform") = {}

\* the build passed, its output was written, and kubeconform ran on it
C22_Witness ==
    /\ val_pc = "exited"
    /\ val_build = "ok"
    /\ val_output = "output_file_path"
    /\ Len(val_cmds) = 2
    /\ val_cmds[2] = [tool |-> "kubeconform", arg |-> "output_file_path"]
    /\ val_kubeconform = "failed"

----------------------------------------------------------------------------
(* promote_images.py: get_paths_from_args_or_env                            *)

\* most elements on the command line
MaxArgs ==
    2

\* most environment variables that are set
MaxEnvSet ==
    2

StagingEnvVars ==
    <<"STAGING_PATH", "MY_STAGING_PATH", "APPS_STAGING_PATH", "FLUX_STAGING_PATH">>

BaseEnvVars ==
    <<"BASE_PATH", "MY_BASE_PATH", "APPS_BASE_PATH", "FLUX_BASE_PATH">>

FluxAppsDir ==
    "FLUX_APPS_DIR"

EnvVarNames ==
    { StagingEnvVars[i] : i \in 1..4 } \cup { BaseEnvVars[i] : i \in 1..4 }
        \cup {FluxAppsDir}

\* the elements of a command line: a positional argument, --staging-path or
\* --base-path with its value, or --dry-run
ArgChoices ==
    { [kind |-> "positional", value |-> <<"cli1">>],
      [kind |-> "positional", value |-> <<"cli2">>],
      [kind |-> "staging_option", value |-> <<"cli_s">>],
      [kind |-> "base_option", value |-> <<"cli_b">>],
      [kind |-> "dry_run", value |-> <<>>] }

\* resolve_path: expanduser, expandvars, Path(...).resolve()
resolve_path(path_str) ==
    [resolved |-> path_str]

\* f"{flux_apps}/staging"
SubDir(dir, name) ==
    dir \o <<"/", name>>

\* the positional arguments from element i on, up to the next option
RECURSIVE PositionalRun(_, _)
PositionalRun(argv, i) ==
    IF i > Len(argv) \/ argv[i].kind # "positional" THEN <<>>
    ELSE <<argv[i].value>> \o PositionalRun(argv, i + 1)

\* parser.parse_args(): the positional staging_path and base_path (nargs='?')
\* and the options --staging-path and --base-path store into the same two
\* attributes. argparse hands both positionals their values at the first run
\* of positional arguments, or at the end of the command line when there is
\* none, and a positional that gets no argument stores its default, None
\* (here <<>>), over what an option stored before. Positional arguments that
\* come later, or a third one, are a usage error (exit status 2).
RECURSIVE ParseArgs(_, _, _, _)
ParseArgs(argv, i, ns, consumed) ==
    IF i > Len(argv)
    THEN IF consumed THEN ns
         ELSE [ns EXCEPT !.staging_path = <<>>, !.base_path = <<>>]
    ELSE LET a == argv[i]
         IN  IF a.kind = "staging_option"
             THEN ParseArgs(argv, i + 1, [ns EXCEPT !.staging_path = a.value], consumed)
             ELSE IF a.kind = "base_option"
             THEN ParseArgs(argv, i + 1, [ns EXCEPT !.base_path = a.value], consumed)
             ELSE IF a.kind = "dry_run"
             THEN ParseArgs(argv, i + 1, [ns EXCEPT !.dry_run = TRUE], consumed)
             ELSE LET run == PositionalRun(argv, i)
                  IN  IF consumed \/ Len(run) > 2 THEN [ns EXCEPT !.usage = TRUE]
                      ELSE ParseArgs(argv, i + Len(run),
                               [ns EXCEPT !.staging_path = run[1],
                                          !.base_path = IF Len(run) = 2 THEN run[2]
                                                        ELSE <<>>],
                               TRUE)

\* for env_var in [...]: env_value = os.getenv(env_var); if env_value: break
RECURSIVE FirstEnvValue(_, _, _)
FirstEnvValue(env, names, i) ==
    IF i > Len(names) THEN <<>>
    ELSE IF env[names[i]] # <<>> THEN env[names[i]]
    ELSE FirstEnvValue(env, names, i + 1)

\* a path that is None
NonePath ==
    [none |-> TRUE]

\* the staging or the base resolution (<<>> is an argument or variable that
\* is None or empty)
ResolveOne(arg, env, names, sub, existing) ==
    IF arg # <<>> THEN resolve_path(arg)
    ELSE IF FirstEnvValue(env, names, 1) # <<>>
    THEN resolve_path(FirstEnvValue(env, names, 1))
    ELSE IF env[FluxAppsDir] # <<>>
            /\ resolve_path(SubDir(env[FluxAppsDir], sub)) \in existing
    THEN resolve_path(SubDir(env[FluxAppsDir], sub))
    ELSE NonePath

EnvValue(name) ==
    <<"value of", name>>

\* the environments: at most MaxEnvSet variables are set to a value
EnvChoices ==
    { e \in [EnvVarNames -> {"", "set"}] :
        Cardinality({ n \in EnvVarNames : e[n] = "set" }) <= MaxEnvSet }

InitPaths ==
    /\ SecretIdle
    /\ SaveIdle
    /\ ImageIdle
    /\ TagsIdle
    /\ PromoteIdle
    /\ RunIdle
    /\ InputIdle
    /\ ValidateIdle
    /\ ReportIdle
    /\ ScanIdle
    /\ CompleterIdle
    /\ path_argv \in UNION { [1..n -> ArgChoices] : n \in 0..MaxArgs }
    /\ \E e \in EnvChoices :
          path_env = [n \in EnvVarNames |-> IF e[n] = "set" THEN EnvValue(n) ELSE <<>>]
    /\ path_existing \in SUBSET { resolve_path(SubDir(EnvValue(FluxAppsDir), "staging")),
                                  resolve_path(SubDir(EnvValue(FluxAppsDir), "base")) }
    /\ path_args = "none"
    /\ path_result = "none"
    /\ path_pc = "call"

\* get_paths_from_args_or_env without --auto-detect
CallGetPaths ==
    /\ path_pc = "call"
    /\ LET args == ParseArgs(path_argv, 1,
                             [staging_path |-> <<>>, base_path |-> <<>>,
                              dry_run |-> FALSE, usage |-> FALSE],
                             FALSE)
       IN  /\ path_args' = args
           /\ IF args.usage
              THEN /\ path_pc' = "usage"
                   /\ UNCHANGED path_result
              ELSE /\ path_pc' = "returned"
                   /\ path_result' =
                        [staging_path |-> ResolveOne(args.staging_path, path_env,
                                                     StagingEnvVars, "staging",
                                                     path_existing),
                         base_path |-> ResolveOne(args.base_path, path_env,
                                                  BaseEnvVars, "base", path_existing),
                         dry_run |-> args.dry_run]
    /\ UNCHANGED <<path_argv, path_env, path_existing, secretVars, saveVars, imageVars,
                   tagsVars, promoteVars, runVars, inputVars, valVars, repVars, scanVars, compVars>>

NextPaths ==
    CallGetPaths

SpecPaths ==
    InitPaths /\ [][NextPaths]_vars

\* the staging paths given on the command line: the first positional
\* argument and the values of --staging-path
CliStagingPaths ==
    { path_argv[i].value : i \in { k \in 1..Len(path_argv) :
          \/ path_argv[k].kind = "staging_option"
          \/ /\ path_argv[k].kind = "positional"
             /\ \A j \in 1..(k - 1) : path_argv[j].kind # "positional" } }

\* the base paths given on the command line: the second positional argument
\* and the values of --base-path
CliBasePaths ==
    { path_argv[i].value : i \in { k \in 1..Len(path_argv) :
          \/ path_argv[k].kind = "base_option"
          \/ /\ path_argv[k].kind = "positional"
             /\ \E j \in 1..(k - 1) : path_argv[j].kind = "positional" } }

\* the precedence the environment gives a path: the first non-empty variable
\* of the list, else the sub-directory of FLUX_APPS_DIR when it exists
EnvPrecedence(names, sub) ==
    IF \E i \in 1..4 : path_env[names[i]] # <<>>
    THEN LET first == CHOOSE i \in 1..4 :
                         /\ path_env[names[i]] # <<>>
                         /\ \A j \in 1..(i - 1) : path_env[names[j]] = <<>>
         IN  resolve_path(path_env[names[first]])
    ELSE IF /\ path_env[FluxAppsDir] # <<>>
            /\ resolve_path(path_env[FluxAppsDir] \o <<"/", sub>>) \in path_existing
    THEN resolve_path(path_env[FluxAppsDir] \o <<"/", sub>>)
    ELSE NonePath

\* C23: a staging (base) path given on the command line takes precedence over
\* the environment; otherwise the first non-empty variable of STAGING_PATH,
\* MY_STAGING_PATH, APPS_STAGING_PATH, FLUX_STAGING_PATH (BASE_PATH, ...) is
\* used; otherwise $FLUX_APPS_DIR/staging (/base) when that directory exists;
\* otherwise the path is None. Each of the two depends on its own sources only.
C23_CommandLineThenEnvironment ==
    path_pc = "returned"
        => /\ IF CliStagingPaths # {}
              THEN path_result.staging_path \in { resolve_path(v) : v \in CliStagingPaths }
              ELSE path_result.staging_path = EnvPrecedence(StagingEnvVars, "staging")
           /\ IF CliBasePaths # {}
              THEN path_result.base_path \in { resolve_path(v) : v \in CliBasePaths }
              ELSE path_result.base_path = EnvPrecedence(BaseEnvVars, "base")

----------------------------------------------------------------------------
(* Properties of a promotion run in which every promotion is confirmed *)

\* the images extract_base_images reads from the file a promotion names
ImagesOfPromotedFile(promo) ==
    SeqRange(extract_base_images(base_dir[promo.app][promo.base_file].content))

\* the run is over and the user has confirmed every promotion offered
AllPromotionsConfirmed ==
    /\ promote_pc = "done"
    /\ Len(answers) = Len(promotions_available)
    /\ \A i \in 1..Len(answers) : answers[i]

\* C24: after a run in which every offered promotion was confirmed, the base
\* manifest of every offered image holds that image with the staging tag and
\* no longer with the old tag, every update was reported as successful, and
\* a second run over the same directories offers no promotion.
C24_ConfirmedRunConverges ==
    AllPromotionsConfirmed
        => /\ \A i \in 1..Len(promotions_available) :
                LET promo == promotions_available[i]
                IN  /\ ImageVersion(promo.image_name, promo.new_tag)
                          \in ImagesOfPromotedFile(promo)
                    /\ ImageVersion(promo.image_name, promo.current_tag)
                          \notin ImagesOfPromotedFile(promo)
           /\ Len(update_log) = Len(promotions_available)
           /\ \A i \in 1..Len(update_log) : update_log[i]
           /\ AllPromotions(staging_dir, base_dir, 1) = <<>>

----------------------------------------------------------------------------
(* Properties of update_base_image as a function of the file content *)

\* the text name:tag of the old image
OldReference ==
    old_image.name \o <<":">> \o old_image.tag

\* C25: update_base_image returns True exactly when the file content
\* changed; when the old name:tag does not occur in the file, or the old and
\* the new image are identical, it returns False and the file is unchanged.
C25_TrueIffContentChanged ==
    image_pc = "updated"
        => /\ update_result = TRUE <=> deployment_content # content_before
           /\ (~Contains(content_before, OldReference) \/ old_image = new_image)
                => /\ update_result = FALSE
                   /\ deployment_content = content_before

----------------------------------------------------------------------------
(* Properties of the confirmation menu of create_k8s_secret *)

\* the positions of a command in the list of commands run
RunsOf(command) ==
    { i \in 1..Len(run_cmds) : run_cmds[i] = command }

\* C26: after the choice 3 (Cancel) no command is run (the list of commands
\* stays at the sops --version probe get_user_inputs made before the menu)
\* and no file is created; kubectl is run at most once and only for the
\* choices 1 and 2; files, the staging file and the sops encryption exist
\* only for choice 2.
C26_CancelDoesNothing ==
    /\ run_choice = "3"
         => /\ run_cmds = <<SopsVersionCommand>>
            /\ files = files_initial
            /\ ~temp_created
            /\ kubectl_result = "none" /\ sops_result = "none"
    /\ Cardinality(RunsOf(KubectlCommand)) <= 1
    /\ RunsOf(KubectlCommand) # {} => run_choice \in {"1", "2"}
    /\ (run_pc # "idle" /\ run_choice # "2")
         => /\ files = files_initial
            /\ saved_files = <<>>
            /\ ~temp_created
            /\ RunsOf(SopsEncryptCommand) = {}

\* the run was cancelled at the menu and has ended with exit code 0
C26_Witness ==
    /\ run_choice = "3"
    /\ run_pc = "exited"
    /\ ~run_interrupted
    /\ exit_code = 0
    /\ files = files_initial

----------------------------------------------------------------------------
(* Properties of the SOPS questions of get_user_inputs *)

\* get_user_inputs has left the SOPS questions behind and goes on to return
SopsSettled ==
    in_pc \in {"kv", "menu", "done"}

\* the pattern ^age1[a-z0-9]{58}$ written out
IsAge1Key(s) ==
    /\ Len(s) = 62
    /\ s[1] = "a" /\ s[2] = "g" /\ s[3] = "e" /\ s[4] = "1"
    /\ \A i \in 5..62 : s[i] \in Lower \cup Digits

\* C27: use_sops is True only if sops was found and the user answered y or
\* yes, and then the returned age_key matches ^age1[a-z0-9]{58}$; with
\* use_sops False the age_key is None (the empty sequence here); without
\* sops the function returns use_sops False or exits with status 0; so the
\* encryption branch of run_kubectl_command is taken only with sops found
\* and a validated key.
C27_SopsOnlyWithBinaryAndKey ==
    /\ in_use_sops
         => /\ sops_available
            /\ in_typed["sops"] # "none"
            /\ lower(strip(in_typed["sops"])) \in { <<"y">>, <<"y","e","s">> }
    /\ (SopsSettled /\ in_use_sops) => IsAge1Key(in_age_key)
    /\ ~in_use_sops => in_age_key = <<>>
    /\ (~sops_available /\ in_pc # "idle")
         => /\ ~in_use_sops
            /\ in_pc = "exited" => in_exit = 0
    /\ in_pc = "exited" => ~sops_available
    /\ in_pc # "exited" => in_exit = "none"
    /\ (SopsSettled /\ EncryptsWithSops(in_use_sops, in_age_key))
         => sops_available /\ IsAge1Key(in_age_key)

\* the user asked for encryption, entered a valid key after an invalid one,
\* and the prompts were completed
C27_Witness ==
    /\ in_pc = "done"
    /\ in_use_sops
    /\ sops_available
    /\ IsAge1Key(in_age_key)
    /\ in_tries > 0

----------------------------------------------------------------------------
(* Edge cases of parse_key_value_input *)

\* the positions of the segments that are not empty after strip
FilledSegments(segs) ==
    { i \in 1..Len(segs) : strip(segs[i]) # <<>> }

\* the pattern match of every segment of a line
MatchesOf(segs) ==
    [i \in 1..Len(segs) |-> PairRegexMatch(strip(segs[i]))]

\* the last of the positions `filled` whose segment carries the key
LastSegmentWith(matches, filled, key) ==
    CHOOSE i \in filled :
        /\ strip(matches[i].group1) = key
        /\ \A j \in filled : strip(matches[j].group1) = key => j <= i

\* the edge cases for one line and the result of parsing it
EdgeCasesHold(text, r) ==
    LET segs    == split(text, ";")
        filled  == FilledSegments(segs)
        matches == MatchesOf(segs)
    IN  /\ strip(text) = <<>> => r.outcome = "ValueError"
        /\ (\A i \in 1..Len(text) : text[i] = ";" \/ IsSpace(text[i]))
             => r.outcome = "ValueError"
        /\ (\E i \in filled : Find(segs[i], ":") = 0) => r.outcome = "ValueError"
        /\ r.outcome = "ValueError" => r.pairs = <<>>
        /\ r.outcome = "ok"
             => /\ r.pairs # <<>>
                /\ \A i, j \in 1..Len(r.pairs) : r.pairs[i][1] = r.pairs[j][1] => i = j
                /\ { r.pairs[i][1] : i \in 1..Len(r.pairs) }
                     = { strip(matches[i].group1) : i \in filled }
                /\ \A i \in 1..Len(r.pairs) :
                     r.pairs[i][2]
                       = strip(matches[LastSegmentWith(matches, filled, r.pairs[i][1])].group2)

\* C28: an empty or whitespace-only line, and a line of semicolons and
\* whitespace only, raise ValueError; empty segments are ignored (the keys
\* of the result are those of the non-empty segments); a non-empty segment
\* without a colon raises ValueError; a key that occurs several times has
\* one entry with the value of its last segment; a returned dictionary is
\* never empty.  Stated for the stripped line the prompt passes and for the
\* line as typed.
C28_ParseEdgeCases ==
    parse_outcome # "pending"
        => /\ EdgeCasesHold(kv_input, [outcome |-> parse_outcome, pairs |-> key_value_pairs])
           /\ EdgeCasesHold(RenderInput(kv_typed, 1),
                            parse_key_value_input(RenderInput(kv_typed, 1)))

\* the line  a: "1"; a: "2"  was parsed to one entry a = 2
C28_Witness ==
    /\ parse_outcome = "ok"
    /\ Len(kv_typed) = 2
    /\ kv_typed[1] = [form |-> "quoted", key |-> <<"a">>, value |-> <<"1">>]
    /\ kv_typed[2] = [form |-> "quoted", key |-> <<"a">>, value |-> <<"2">>]
    /\ key_value_pairs = << << <<"a">>, <<"2">> >> >>

----------------------------------------------------------------------------
(* Properties of the summary of failing resources *)

\* the table entries that name the Kind and name of a line of the form
\* <file> - <Kind> <name> <message>
NamedTableEntries ==
    { k \in 1..Len(rep_table) :
        /\ rep_lines[rep_table[k].line].form = "resource"
        /\ rep_table[k].resource
             = rep_lines[rep_table[k].line].kind \o <<"/">> \o rep_lines[rep_table[k].line].name }

\* the rows of the summary are in ascending order of their resource key
SummarySorted ==
    \A i, j \in 1..Len(rep_summary.rows) :
        i < j => ~StrLess(rep_summary.rows[j].resource, rep_summary.rows[i].resource)

\* C29: once the summary is printed, every line <file> - <Kind> <name>
\* <message> with an entry in the error table has a summary row for its
\* Kind/name, the rows are sorted by resource key, and the fallback row
\* "No specific resources identified" is printed only when no line names a
\* resource.
C29_SummaryNamesFailingResources ==
    rep_summary.printed
        => /\ \A k \in NamedTableEntries :
                \E j \in 1..Len(rep_summary.rows) :
                    rep_summary.rows[j].resource = rep_table[k].resource
           /\ SummarySorted
           /\ rep_summary.fallback => NamedTableEntries = {}

----------------------------------------------------------------------------
(* promote_images.py: PathCompleter.path_completer as a state machine *)

\* at most this many calls of the completer are followed
MaxCompleterCalls == 3

\* the states readline passes run from 0 to this number
MaxCompleterState == 2

HomeName ==
    <<"H","O","M","E">>

\* the working directory of the process
WorkDir ==
    <<"/","h">>

\* the characters of \w that the names of the model use
IsVarChar(c) ==
    c \in Lower \cup Upper \cup Digits \cup {"_"}

RECURSIVE VarNameEnd(_, _)
VarNameEnd(s, p) ==
    IF p > Len(s) \/ ~IsVarChar(s[p]) THEN p
    ELSE VarNameEnd(s, p + 1)

\* os.path.expandvars for the $NAME form: a defined variable is replaced by
\* its value and the scan goes on behind the value; anything else is kept
RECURSIVE expandvars(_, _)
expandvars(path, env) ==
    LET d == Find(path, "$")
        e == VarNameEnd(path, d + 1)
        name == SubSeq(path, d + 1, e - 1)
    IN  IF d = 0 THEN path
        ELSE IF name \in DOMAIN env
        THEN SubSeq(path, 1, d - 1) \o env[name]
             \o expandvars(SubSeq(path, e, Len(path)), env)
        ELSE SubSeq(path, 1, e - 1) \o expandvars(SubSeq(path, e, Len(path)), env)

\* str.rstrip('/')
RECURSIVE rstripSlash(_)
rstripSlash(s) ==
    IF s # <<>> /\ s[Len(s)] = "/" THEN rstripSlash(SubSeq(s, 1, Len(s) - 1)) ELSE s

\* os.path.expanduser: "~" and "~/..." take HOME without its trailing
\* slashes; "~name" names a user the password database does not hold and
\* is returned unchanged
expanduser(path, home) ==
    IF path = <<>> \/ path[1] # "~" THEN path
    ELSE IF Len(path) > 1 /\ path[2] # "/" THEN path
    ELSE LET r == rstripSlash(home) \o SubSeq(path, 2, Len(path))
         IN  IF r = <<>> THEN <<"/">> ELSE r

\* the position of the last "/" of a path, 0 when it has none
LastSlash(p) ==
    IF \E i \in 1..Len(p) : p[i] = "/"
    THEN Max({ i \in 1..Len(p) : p[i] = "/" })
    ELSE 0

\* os.path.dirname
dirname(p) ==
    LET head == SubSeq(p, 1, LastSlash(p))
    IN  IF rstripSlash(head) = <<>> THEN head ELSE rstripSlash(head)

\* os.path.basename
basename(p) ==
    SubSeq(p, LastSlash(p) + 1, Len(p))

\* os.path.join(a, b) for a relative b
join(a, b) ==
    IF a = <<>> \/ a[Len(a)] = "/" THEN a \o b ELSE a \o <<"/">> \o b

\* a run of slashes names what one slash names
RECURSIVE CollapseSlashes(_)
CollapseSlashes(p) ==
    IF Len(p) < 2 THEN p
    ELSE IF p[1] = "/" /\ p[2] = "/" THEN CollapseSlashes(Tail(p))
    ELSE <<p[1]>> \o CollapseSlashes(Tail(p))

\* the absolute path a path stands for in the working directory
AbsPath(p) ==
    LET a == CollapseSlashes(IF p # <<>> /\ p[1] = "/" THEN p ELSE join(WorkDir, p))
    IN  IF rstripSlash(a) = <<>> THEN <<"/">> ELSE rstripSlash(a)

\* os.path.isdir
isdir(fs, p) ==
    \/ AbsPath(p) = <<"/">>
    \/ AbsPath(p) \in DOMAIN fs /\ fs[AbsPath(p)] = "dir"

\* the pattern built from the expanded text
PatternOf(expanded_text) ==
    IF expanded_text # <<>> /\ expanded_text[Len(expanded_text)] = "/"
    THEN expanded_text \o <<"*">>
    ELSE IF dirname(expanded_text) # <<>>
    THEN join(dirname(expanded_text), basename(expanded_text) \o <<"*">>)
    ELSE basename(expanded_text) \o <<"*">>

\* glob.glob(pattern) for a pattern whose only wildcard is the final "*":
\* the entries of the pattern's directory whose name starts with the text
\* before the "*" (a name with a leading dot only for a pattern with one),
\* each as os.path.join(dirname, name), or as the bare name when the pattern
\* has no directory part.  The patterns of the model have no "." or ".."
\* component.
glob(pattern, fs) ==
    LET dir    == dirname(pattern)
        prefix == SubSeq(basename(pattern), 1, Len(basename(pattern)) - 1)
        where  == IF dir = <<>> THEN WorkDir ELSE AbsPath(dir)
        names  == { basename(p) : p \in { q \in DOMAIN fs : AbsPath(dirname(q)) = where } }
    IN  IF ~isdir(fs, where) THEN {}
        ELSE { IF dir = <<>> THEN n ELSE join(dir, n) :
                 n \in { m \in names :
                           /\ StartsWithAt(m, 1, prefix)
                           /\ (m[1] = "." => (prefix # <<>> /\ prefix[1] = ".")) } }

\* a completion that never gets the trailing slash
CompletionWithoutMark(text, match, home, fs) ==
    match

\* one turn of  for match in potential_matches: the "~" is put back for a
\* text that began with it, and a directory gets its trailing slash
CompletionOf(text, match, home, fs) ==
    LET h     == expanduser(<<"~">>, home)
        short == IF text # <<>> /\ text[1] = "~" /\ StartsWithAt(match, 1, h)
                 THEN <<"~">> \o SubSeq(match, Len(h) + 1, Len(match))
                 ELSE match
    IN  IF isdir(fs, expanduser(expandvars(short, [n \in {HomeName} |-> home]), home))
        THEN short \o <<"/">>
        ELSE short

\* list.sort() of a list of distinct strings
RECURSIVE SortedStrings(_)
SortedStrings(S) ==
    IF S = {} THEN <<>>
    ELSE LET least == CHOOSE x \in S : \A y \in S : ~StrLess(y, x)
         IN  <<least>> \o SortedStrings(S \ {least})

\* potential_matches of a state-0 call
PotentialMatches(text, home, fs) ==
    glob(PatternOf(expanduser(expandvars(text, [n \in {HomeName} |-> home]), home)), fs)

\* self.matches[state], None on IndexError
MatchAt(matches, state) ==
    IF state < Len(matches)
    THEN [none |-> FALSE, value |-> matches[state + 1]]
    ELSE NoneResult

EtcDir ==
    <<"/","e","t","c">>

HomeDir ==
    <<"/","h">>

ProjDir ==
    <<"/","h","/","p">>

ProjFile ==
    <<"/","h","/","p","q">>

\* /etc and /h are directories; /h/p and /h/pq may each be absent, a
\* directory or a file
FsChoices ==
    { [p \in {EtcDir, HomeDir} \cup DOMAIN opt |->
         IF p \in DOMAIN opt THEN opt[p] ELSE "dir"] :
      opt \in UNION { [D -> {"dir", "file"}] : D \in SUBSET {ProjDir, ProjFile} } }

HomeChoices ==
    { HomeDir, <<"/">> }

\* what is on the line when TAB is pressed
TextChoices ==
    { <<"/","e">>, <<"/","h","/">>, <<"/","h","/","p">>, <<"~","/">>, <<"~","/","p">>,
      <<"$","H","O","M","E","/">>, <<"/","z","z">>, <<"p">> }

InitCompleter ==
    /\ SecretIdle
    /\ SaveIdle
    /\ ImageIdle
    /\ TagsIdle
    /\ PromoteIdle
    /\ RunIdle
    /\ InputIdle
    /\ ValidateIdle
    /\ ReportIdle
    /\ ScanIdle
    /\ PathsIdle
    /\ comp_home \in HomeChoices
    /\ comp_fs \in FsChoices
    /\ comp_matches = <<>>
    /\ comp_found = {}
    /\ comp_failed = FALSE
    /\ comp_text = <<>>
    /\ comp_state = 0
    /\ comp_result = NoneResult
    /\ comp_calls = 0

\* path_completer(text, state): with state 0 the list is rebuilt, or
\* emptied when glob raises OSError or ValueError; then the element at
\* index state is returned
PathCompleterCall ==
    /\ comp_calls < MaxCompleterCalls
    /\ \E text \in TextChoices, state \in 0..MaxCompleterState, raises \in BOOLEAN :
         LET found   == PotentialMatches(text, comp_home, comp_fs)
             matches == IF state # 0 THEN comp_matches
                        ELSE IF raises THEN <<>>
                        ELSE SortedStrings({ CompletionOf(text, m, comp_home, comp_fs) :
                                             m \in found })
         IN  /\ (state # 0 => ~raises)
             /\ comp_text' = text
             /\ comp_state' = state
             /\ comp_failed' = IF state = 0 THEN raises ELSE comp_failed
             /\ comp_found' = IF state # 0 THEN comp_found
                              ELSE IF raises THEN {} ELSE found
             /\ comp_matches' = matches
             /\ comp_result' = MatchAt(matches, state)
    /\ comp_calls' = comp_calls + 1
    /\ UNCHANGED <<comp_home, comp_fs, secretVars, saveVars, imageVars, tagsVars,
                   promoteVars, runVars, inputVars, valVars, repVars, scanVars, pathVars>>

\* between two calls a file or a directory is created, removed or replaced
ChangeFiles ==
    /\ comp_calls < MaxCompleterCalls
    /\ \E fs \in FsChoices \ {comp_fs} : comp_fs' = fs
    /\ UNCHANGED <<comp_home, comp_matches, comp_found, comp_failed, comp_text, comp_state,
                   comp_result, comp_calls, secretVars, saveVars, imageVars, tagsVars,
                   promoteVars, runVars, inputVars, valVars, repVars, scanVars, pathVars>>

NextCompleter ==
    \/ PathCompleterCall
    \/ ChangeFiles

SpecCompleter ==
    InitCompleter /\ [][NextCompleter]_vars

----------------------------------------------------------------------------
(* Properties of the completer *)

EndsWithSlash(s) ==
    s # <<>> /\ s[Len(s)] = "/"

\* the list is in ascending order
AscendingStrings(list) ==
    \A i, j \in 1..Len(list) : i < j => ~StrLess(list[j], list[i])

\* os.path.isdir of what a completion stands for: the completion without
\* its trailing slash, with variables and "~" expanded
IsDirectoryMatch(m) ==
    isdir(comp_fs, expanduser(expandvars(IF EndsWithSlash(m) THEN SubSeq(m, 1, Len(m) - 1) ELSE m,
                                         [n \in {HomeName} |-> comp_home]),
                              comp_home))

\* what a call with state 0 leaves behind: the empty list when glob failed,
\* else one entry for every existing path glob found for the text of this
\* call, in ascending order, with a trailing slash on exactly the entries
\* that are directories
ListRebuilt ==
    /\ comp_failed' => comp_matches' = <<>>
    /\ ~comp_failed'
         => /\ Len(comp_matches') = Cardinality(comp_found')
            /\ \A f \in comp_found' :
                 /\ AbsPath(f) \in DOMAIN comp_fs
                 /\ StartsWithAt(f, 1, expanduser(expandvars(comp_text',
                                                             [n \in {HomeName} |-> comp_home]),
                                                  comp_home))
            /\ \A i \in 1..Len(comp_matches') :
                 EndsWithSlash(comp_matches'[i]) <=> IsDirectoryMatch(comp_matches'[i])
    /\ AscendingStrings(comp_matches')

====
